---- MODULE Spec2Model ----
(***************************************************************************)
(* Exam lifecycle and auto-grading engine of weblearn (src/app.py):        *)
(* the session store (create_exam_session, start_exam, save_answer,        *)
(* get_saved_answers), submit_exam with calculate_exam_score, and the      *)
(* record archive (get_exam_record_detail).                                *)
(*                                                                         *)
(* Representation of Python/JSON data:                                     *)
(*   - a string is a sequence of one-character strings, so that strip(),   *)
(*     upper() and ord() are computed, not assumed;                        *)
(*   - a JSON value is a record [t, s, n, b] tagged "str", "int" or "bool"; *)
(*   - an optional dict key is a sequence of length 0 (absent) or 1;       *)
(*   - a dict with string keys is a function whose DOMAIN is the key set.  *)
(***************************************************************************)
EXTENDS Integers, Sequences, FiniteSets, TLC

\* ------------------------------------------------------------------------
\* Python values and builtins
\* ------------------------------------------------------------------------

StrVal(chars) == [t |-> "str", s |-> chars, n |-> 0, b |-> FALSE]

IntVal(k) == [t |-> "int", s |-> <<>>, n |-> k, b |-> FALSE]

BoolVal(x) == [t |-> "bool", s |-> <<>>, n |-> 0, b |-> x]

\* dict.get(key, default) on an optional key
Get(opt, default) == IF opt = <<>> THEN default ELSE opt[1]

LowerCase ==
  <<"a", "b", "c", "d", "e", "f", "g", "h", "i", "j", "k", "l", "m",
    "n", "o", "p", "q", "r", "s", "t", "u", "v", "w", "x", "y", "z">>

UpperCase ==
  <<"A", "B", "C", "D", "E", "F", "G", "H", "I", "J", "K", "L", "M",
    "N", "O", "P", "Q", "R", "S", "T", "U", "V", "W", "X", "Y", "Z">>

Digits == <<"0", "1", "2", "3", "4", "5", "6", "7", "8", "9">>

Whitespace == {" ", "\t", "\n", "\r"}

\* str.upper() on one character
UpperChar(c) ==
  IF \E k \in DOMAIN LowerCase : LowerCase[k] = c
  THEN UpperCase[CHOOSE k \in DOMAIN LowerCase : LowerCase[k] = c]
  ELSE c

\* str.upper()
upper(str) == [k \in DOMAIN str |-> UpperChar(str[k])]

RECURSIVE lstrip(_)
lstrip(str) ==
  IF str # <<>> /\ Head(str) \in Whitespace THEN lstrip(Tail(str)) ELSE str

RECURSIVE rstrip(_)
rstrip(str) ==
  IF str # <<>> /\ str[Len(str)] \in Whitespace
  THEN rstrip(SubSeq(str, 1, Len(str) - 1))
  ELSE str

\* str.strip()
strip(str) == rstrip(lstrip(str))

\* ord(letter) - ord('A') for an upper-case ASCII letter
OrdMinusA(c) == (CHOOSE k \in DOMAIN UpperCase : UpperCase[k] = c) - 1

\* chr(65 + k) for 0 <= k <= 25
Chr65(k) == <<UpperCase[k + 1]>>

RECURSIVE NatStr(_)
NatStr(k) ==
  IF k < 10 THEN <<Digits[k + 1]>>
  ELSE NatStr(k \div 10) \o <<Digits[(k % 10) + 1]>>

\* str(int)
IntStr(k) == IF k < 0 THEN <<"-">> \o NatStr(0 - k) ELSE NatStr(k)

\* str(value)
PyStr(v) ==
  CASE v.t = "str" -> v.s
    [] v.t = "int" -> IntStr(v.n)
    [] v.t = "bool" -> IF v.b THEN <<"T", "r", "u", "e">>
                              ELSE <<"F", "a", "l", "s", "e">>

\* bool(value)
Truthy(v) ==
  CASE v.t = "str" -> v.s # <<>>
    [] v.t = "int" -> v.n # 0
    [] v.t = "bool" -> v.b

\* isinstance(value, int): bool is a subclass of int
IsInstanceInt(v) == v.t \in {"int", "bool"}

IsInstanceBool(v) == v.t = "bool"

\* int(value) for an int or a bool
AsInt(v) == IF v.t = "bool" THEN (IF v.b THEN 1 ELSE 0) ELSE v.n

ChoiceLetters == {<<"A">>, <<"B">>, <<"C">>, <<"D">>, <<"E">>, <<"F">>}

\* the display strings of lines 1261-1268, one atom per CJK character (U+xxxx)
TextCorrect == <<"u6b63", "u786e">>

TextWrong == <<"u9519", "u8bef">>

TextUnanswered == <<"u672a", "u4f5c", "u7b54">>

\* ------------------------------------------------------------------------
\* calculate_exam_score (src/app.py 1185-1296)
\*
\* A question is [type, score, answer, options, question]; score, answer,
\* options and question are optional keys.  An exam is [json, questions]:
\* json = "object" for a mapping, anything else for a JSON value without .get.
\* ------------------------------------------------------------------------

EmptyStr == StrVal(<<>>)

\* the user answer is one of the letters A-F after strip().upper()  (1207, 1214)
IsLetter(user_answer) == upper(strip(PyStr(user_answer))) \in ChoiceLetters

\* ord(str(user_answer).strip().upper()) - ord('A')  (1208, 1217)
UserIndex(user_answer) == OrdMinusA(upper(strip(PyStr(user_answer)))[1])

\* a bug: the letter is compared without upper()
ChoiceIndexCorrect_CaseSensitive(user_answer, correct_answer) ==
  IF Truthy(user_answer) /\ strip(PyStr(user_answer)) \in ChoiceLetters
  THEN OrdMinusA(strip(PyStr(user_answer))[1]) = AsInt(correct_answer)
  ELSE FALSE

\* choice, correct answer is an int (1205-1211)
ChoiceIndexCorrect(user_answer, correct_answer) ==
  IF Truthy(user_answer) /\ IsLetter(user_answer)
  THEN UserIndex(user_answer) = AsInt(correct_answer)
  ELSE FALSE

\* a bug: the option text is compared without strip()
ChoiceLegacyCorrect_NoStrip(question, user_answer, correct_answer) ==
  IF IsLetter(user_answer)
  THEN LET options == Get(question.options, <<>>)
           user_index == UserIndex(user_answer)
       IN IF 0 <= user_index /\ user_index < Len(options)
          THEN options[user_index + 1] = strip(PyStr(correct_answer))
          ELSE FALSE
  ELSE strip(PyStr(user_answer)) = strip(PyStr(correct_answer))

\* choice, legacy format: correct answer is a letter or a text (1212-1225)
ChoiceLegacyCorrect(question, user_answer, correct_answer) ==
  IF IsLetter(user_answer)
  THEN LET options == Get(question.options, <<>>)
           user_index == UserIndex(user_answer)
       IN IF 0 <= user_index /\ user_index < Len(options)
          THEN strip(options[user_index + 1]) = strip(PyStr(correct_answer))
          ELSE FALSE
  ELSE strip(PyStr(user_answer)) = strip(PyStr(correct_answer))

\* judge, correct answer is a bool: "A" is True, "B" is False, else None (1230-1237)
JudgeBoolCorrect(user_answer, correct_answer) ==
  LET u == upper(user_answer.s)
  IN CASE u = <<"A">> -> correct_answer.b = TRUE
       [] u = <<"B">> -> correct_answer.b = FALSE
       [] OTHER -> FALSE

\* judge, legacy format (1238-1239)
JudgeLegacyCorrect(user_answer, correct_answer) ==
  upper(strip(PyStr(user_answer))) = upper(strip(PyStr(correct_answer)))

\* other question types: a non-blank answer is correct (1243)
OtherCorrect(user_answer) ==
  IF Truthy(user_answer) THEN strip(user_answer.s) # <<>> ELSE FALSE

\* the attribute errors of one loop iteration: .upper() (1231) and .strip()
\* (1243) exist on str only
QuestionRaises(question, user_answer) ==
  LET correct_answer == Get(question.answer, EmptyStr)
  IN CASE question.type = "choice" -> FALSE
       [] question.type = "judge" ->
            IsInstanceBool(correct_answer) /\ user_answer.t # "str"
       [] OTHER -> Truthy(user_answer) /\ user_answer.t # "str"

\* is_correct of one question (1201-1244)
IsCorrect(question, user_answer) ==
  LET correct_answer == Get(question.answer, EmptyStr)
  IN CASE question.type = "choice" ->
            IF IsInstanceInt(correct_answer)
            THEN ChoiceIndexCorrect(user_answer, correct_answer)
            ELSE ChoiceLegacyCorrect(question, user_answer, correct_answer)
       [] question.type = "judge" ->
            IF IsInstanceBool(correct_answer)
            THEN JudgeBoolCorrect(user_answer, correct_answer)
            ELSE JudgeLegacyCorrect(user_answer, correct_answer)
       [] OTHER -> OtherCorrect(user_answer)

\* a bug: the score is awarded whether or not the answer is correct
EarnedScore_Always(question_score, is_correct) == question_score

\* earned_score = question_score if is_correct else 0  (1227, 1240, 1244)
EarnedScore(question_score, is_correct) ==
  IF is_correct THEN question_score ELSE 0

\* display_correct_answer (1249, 1252-1261)
DisplayCorrectAnswer(question) ==
  LET correct_answer == Get(question.answer, EmptyStr)
  IN CASE question.type = "choice" /\ IsInstanceInt(correct_answer) ->
            IF 0 <= AsInt(correct_answer) /\ AsInt(correct_answer) <= 5
            THEN StrVal(Chr65(AsInt(correct_answer)))
            ELSE StrVal(PyStr(correct_answer))
       [] question.type = "judge" /\ IsInstanceBool(correct_answer) ->
            IF correct_answer.b THEN StrVal(TextCorrect) ELSE StrVal(TextWrong)
       [] OTHER -> correct_answer

\* display_user_answer (1250, 1262-1268)
DisplayUserAnswer(question, user_answer) ==
  IF question.type = "judge"
  THEN CASE user_answer = StrVal(<<"A">>) -> StrVal(TextCorrect)
         [] user_answer = StrVal(<<"B">>) -> StrVal(TextWrong)
         [] ~Truthy(user_answer) -> StrVal(TextUnanswered)
         [] OTHER -> user_answer
  ELSE user_answer

\* answers.get(str(i), '')  (1197)
UserAnswer(answers, i) ==
  IF IntStr(i) \in DOMAIN answers THEN answers[IntStr(i)] ELSE EmptyStr

\* a bug: question_index counted from one
QuestionResult_OneBased(question, user_answer, i) ==
  LET question_score == Get(question.score, 1)
      is_correct == IsCorrect(question, user_answer)
  IN [question_index |-> i + 1,
      question |-> Get(question.question, <<>>),
      user_answer |-> DisplayUserAnswer(question, user_answer),
      correct_answer |-> DisplayCorrectAnswer(question),
      is_correct |-> is_correct,
      earned_score |-> EarnedScore(question_score, is_correct),
      full_score |-> question_score,
      question_type |-> question.type]

\* the dict appended to question_results (1270-1279), i zero-based
QuestionResult(question, user_answer, i) ==
  LET question_score == Get(question.score, 1)
      is_correct == IsCorrect(question, user_answer)
  IN [question_index |-> i,
      question |-> Get(question.question, <<>>),
      user_answer |-> DisplayUserAnswer(question, user_answer),
      correct_answer |-> DisplayCorrectAnswer(question),
      is_correct |-> is_correct,
      earned_score |-> EarnedScore(question_score, is_correct),
      full_score |-> question_score,
      question_type |-> question.type]

\* a bug: the percentage is cut after two decimals instead of rounded
Percentage_Truncated(total_score, full_score) ==
  IF full_score > 0 THEN (total_score * 10000) \div full_score ELSE 0

\* round(x, 2) of x = total_score / full_score * 100, in hundredths; no exact
\* tie occurs for full_score < 32  (1284)
Percentage(total_score, full_score) ==
  IF full_score > 0
  THEN (2 * total_score * 10000 + full_score) \div (2 * full_score)
  ELSE 0

\* the for loop of 1193-1279 from zero-based position i on; acc.exc is set by
\* the iteration that raises, which ends the loop
RECURSIVE ScoreLoop(_, _, _, _)
ScoreLoop(questions, answers, i, acc) ==
  IF i >= Len(questions) THEN acc
  ELSE LET question == questions[i + 1]
           user_answer == UserAnswer(answers, i)
       IN IF QuestionRaises(question, user_answer)
          THEN [acc EXCEPT !.exc = TRUE]
          ELSE LET r == QuestionResult(question, user_answer, i)
               IN ScoreLoop(questions, answers, i + 1,
                    [exc |-> FALSE,
                     total_score |-> acc.total_score + r.earned_score,
                     full_score |-> acc.full_score + r.full_score,
                     question_results |-> Append(acc.question_results, r)])

\* the result of the except branch (1288-1296)
ErrorResult ==
  [total_score |-> 0, full_score |-> 0, percentage |-> 0,
   question_results |-> <<>>, error |-> TRUE]

calculate_exam_score(exam_data, answers) ==
  IF exam_data.json # "object" THEN ErrorResult
  ELSE LET acc == ScoreLoop(Get(exam_data.questions, <<>>), answers, 0,
                    [exc |-> FALSE, total_score |-> 0, full_score |-> 0,
                     question_results |-> <<>>])
       IN IF acc.exc THEN ErrorResult
          ELSE [total_score |-> acc.total_score,
                full_score |-> acc.full_score,
                percentage |-> Percentage(acc.total_score, acc.full_score),
                question_results |-> acc.question_results,
                error |-> FALSE]

\* ------------------------------------------------------------------------
\* Bounds and inputs of the session machine
\* ------------------------------------------------------------------------

\* request threads of the server
NumThreads == 2

\* the clock stops at MaxTime
MaxTime == 1

\* requests the clients send in one run
MaxRequests == 4

\* question_index inputs are 0..MaxIndex
MaxIndex == 1

\* values os.urandom(8).hex() is drawn from
NumRandom == 1

Threads == 1..NumThreads

\* a choice question keyed by index 0 (2 points) and a judge question keyed True
\* (1 point), as generate_exam builds them
ExamA ==
  [json |-> "object",
   questions |-> << <<
     [type |-> "choice", score |-> <<2>>, answer |-> <<IntVal(0)>>,
      options |-> << << <<"x">>, <<"y">> >> >>, question |-> << <<"q">> >>],
     [type |-> "judge", score |-> <<1>>, answer |-> <<BoolVal(TRUE)>>,
      options |-> <<>>, question |-> << <<"r">> >>] >> >>]

\* "exam": "x" -- a JSON string where a mapping is expected
BadExam == [json |-> "string", questions |-> <<>>]

\* "exam": {} -- an empty mapping, falsy in Python
EmptyExam == [json |-> "object", questions |-> <<>>]

\* bool(exam_data)
ExamTruthy(exam_data) ==
  IF exam_data.json = "object" THEN exam_data.questions # <<>> ELSE TRUE

\* the exams posted to create_exam_session; <<>> is a request without the
\* "exam" key
CreateExams == {<<>>, <<ExamA>>, <<BadExam>>}

\* the exams posted to start_exam
StartExams == {<<>>, <<EmptyExam>>, <<ExamA>>}

\* hash(str(exam_data)): one value per exam within a process
ExamHash(exam_data) ==
  CASE exam_data = ExamA -> 1
    [] exam_data = BadExam -> 2
    [] exam_data = EmptyExam -> 3

\* the hashes of the exams start_exam accepts
StartHashes == {ExamHash(exam[1]) : exam \in {e \in StartExams : e # <<>> /\ ExamTruthy(e[1])}}

\* "exam_<%Y%m%d_%H%M%S>_<suffix>": the suffix is a hash (start_exam) or
\* random bytes (create_exam_session)
SessionId(stamp, kind, v) == [stamp |-> stamp, kind |-> kind, v |-> v]

AllSessionIds ==
  {SessionId(stamp, "hash", v) : stamp \in 0..MaxTime, v \in StartHashes}
    \cup {SessionId(stamp, "urandom", v) : stamp \in 0..MaxTime, v \in 1..NumRandom}

\* an id no handler generates
UnknownId == SessionId(0, "urandom", 0)

\* data.get('student_name', default)
DefaultStudentName == <<"u533f", "u540d", "u7528", "u6237">>

AnswerInputs == {StrVal(<<"A">>), StrVal(<<"B">>)}

\* the (question_index, answer) pairs of save_answer requests; <<>> is a
\* missing key
SaveInputs ==
  {[question_index |-> <<i>>, answer |-> <<a>>] : i \in 0..MaxIndex, a \in AnswerInputs}
    \cup {[question_index |-> <<>>, answer |-> <<StrVal(<<"A">>)>>],
          [question_index |-> <<0>>, answer |-> <<>>]}

\* ------------------------------------------------------------------------
\* State
\* ------------------------------------------------------------------------

VARIABLES
  session_files,  \* UPLOAD_FOLDER/<session_id>.json, by session id
  record_files,   \* UPLOAD_FOLDER/exam_records/<session_id>_result.json
  now,            \* datetime.now()
  threaded,       \* app.run serves requests concurrently
  pc,             \* per thread: position in its handler
  local,          \* per thread: session_id and exam_session of the handler
  response,       \* the last response returned
  requests,       \* number of requests received so far
  save_log,       \* per session unit: the (index, answer) pairs of the
                  \* save_answer calls that returned success, oldest first
  score_in,       \* the (exam_data, answers) pair given to calculate_exam_score
  score_out,      \* <<>> or <<its ScoreResult>>
  questions_in,   \* the arguments of generate_exam_questions and the AI response
  questions_out,  \* <<>> or <<its outcome>>
  exam_in,        \* the generate_exam request and the AI responses it gets
  exam_out,       \* <<>> or <<its response>>
  records_out,    \* <<>> or <<the response of get_exam_records>>
  memory_cache,   \* the MemoryCache instance: _cache and _timestamps
  clock,          \* time.time(), in seconds
  subjects,       \* the subject directories under SUBJECTS_DIR
  knowledge_cache, \* lru_cache of load_knowledge_base: the subjects loaded
  explanation_file, \* the cache file of the explanation: <<>> or <<its text>>
  set_log,        \* per cache key: <<>> or <<the time, ttl and value of the
                  \* last memory_cache.set that was not cleared since>>
  cache_reply     \* the last response of a handler that uses the cache

\* the arguments and results of the functions checked on their own
\* the memory cache and what its handlers read and write
cacheVars ==
  <<memory_cache, clock, subjects, knowledge_cache, explanation_file,
    set_log, cache_reply>>

callVars ==
  <<score_in, score_out, questions_in, questions_out, exam_in, exam_out,
    records_out, cacheVars>>

\* the files, the clock and the request threads of the server
machineVars ==
  <<session_files, record_files, now, threaded, pc, local, response,
    requests, save_log>>

vars ==
  <<session_files, record_files, now, threaded, pc, local, response,
    requests, save_log, callVars>>

NoId == SessionId(0, "none", 0)

NoInput == [question_index |-> <<>>, answer |-> <<>>]

NoLocal == [session_id |-> NoId, exam_session |-> <<>>, input |-> NoInput]

NoResponse == [op |-> "none", session_id |-> NoId, code |-> 0]

Response(op, session_id, code) ==
  [op |-> op, session_id |-> session_id, code |-> code]

EmptyAnswers == [k \in {} |-> EmptyStr]

NoScoreIn == [exam_data |-> EmptyExam, answers |-> EmptyAnswers]

\* os.path.exists(file)
Exists(files, session_id) == session_id \in DOMAIN files

\* a bug: one file name for every session
Dump_SharedFile(files, session_id, exam_session) ==
  [x \in DOMAIN files \cup {session_id} |-> exam_session]

\* open(file, 'w') and json.dump(exam_session, f): creates or overwrites
Dump(files, session_id, exam_session) ==
  [x \in DOMAIN files \cup {session_id} |->
     IF x = session_id THEN exam_session ELSE files[x]]

\* ------------------------------------------------------------------------
\* the state of the memory cache and of the subject directories
\* ------------------------------------------------------------------------

\* the subject directories at start: one with chapters, one whose knowledge
\* base has no chapter
SubjectNames == {"math", "law"}

\* the chapters of each subject's knowledge base, as the ids and titles that
\* get_chapters builds
ChaptersOf(subject) ==
  IF subject = "math"
    THEN <<[id |-> 0, title |-> "c1"], [id |-> 1, title |-> "c2"]>>
    ELSE <<>>

\* f"chapters_{subject}"
ChaptersKey(subject) == <<"chapters", subject>>

\* f"explanation_{chapter}_{concept}_{concept_type}" of the one concept that
\* the clients ask about
ExplanationKey == <<"explanation", "c1", "limit", "concept">>

\* the subjects that a request may name; the empty string is a request
\* without the parameter
RequestSubjects == SubjectNames \cup {"", "ghost"}

CacheKeys ==
  {ChaptersKey(subject) : subject \in RequestSubjects} \cup {ExplanationKey}

\* MemoryCache.__init__
EmptyCache ==
  [cache |-> [k \in {} |-> <<>>], timestamps |-> [k \in {} |-> 0]]

NoCacheReply == [op |-> "none"]

InitCache ==
  /\ memory_cache = EmptyCache
  /\ clock = 0
  /\ subjects = SubjectNames
  /\ knowledge_cache = {}
  /\ explanation_file = <<>>
  /\ set_log = [k \in CacheKeys |-> <<>>]
  /\ cache_reply = NoCacheReply

\* no call of generate_exam_questions, generate_exam or get_exam_records
NoOtherCalls ==
  /\ questions_in = <<>>
  /\ questions_out = <<>>
  /\ exam_in = <<>>
  /\ exam_out = <<>>
  /\ records_out = <<>>
  /\ InitCache

InitMachine ==
  /\ session_files = [x \in {} |-> <<>>]
  /\ record_files = [x \in {} |-> <<>>]
  /\ now = 0
  /\ pc = [t \in Threads |-> "idle"]
  /\ local = [t \in Threads |-> NoLocal]
  /\ response = NoResponse
  /\ requests = 0
  /\ save_log = [x \in AllSessionIds \cup {UnknownId} |-> <<>>]

\* a handler starts on an idle thread; without threading the server has one
\* thread and serves the next request when the last one is answered; the
\* clients send MaxRequests requests
CanStart(t) ==
  /\ pc[t] = "idle"
  /\ threaded \/ t = 1
  /\ requests < MaxRequests
  /\ requests' = requests + 1

Reply(t, op, session_id, code) ==
  /\ response' = Response(op, session_id, code)
  /\ pc' = [pc EXCEPT ![t] = "idle"]
  /\ local' = [local EXCEPT ![t] = NoLocal]

Goto(t, label, session_id, exam_session, input) ==
  /\ pc' = [pc EXCEPT ![t] = label]
  /\ local' = [local EXCEPT ![t] =
       [session_id |-> session_id, exam_session |-> <<exam_session>>,
        input |-> input]]
  /\ UNCHANGED response

\* ------------------------------------------------------------------------
\* Handlers.  A handler that only writes, or only reads, is one action.
\* save_answer and submit_exam read the unit, compute, and write it back
\* without a lock: each is one action up to its first write and one action
\* per write, so that other threads can run in between.  A write (open 'w'
\* and json.dump) is one step.
\* ------------------------------------------------------------------------

Tick ==
  /\ now < MaxTime
  /\ now' = now + 1
  /\ UNCHANGED <<session_files, record_files, threaded, pc, local, response,
                 requests, save_log, callVars>>

\* the session built at 1014-1020
NewSession(session_id, exam_data, time) ==
  [session_id |-> session_id,
   student_name |-> <<>>,
   exam_data |-> exam_data,
   start_time |-> time,
   status |-> "not_started",
   answers |-> EmptyAnswers,
   auto_save_count |-> <<>>,
   last_save_time |-> <<>>,
   end_time |-> <<>>,
   score_result |-> <<>>]

\* the session built at 1067-1075
StartedSession(session_id, student_name, exam_data, time) ==
  [session_id |-> session_id,
   student_name |-> <<student_name>>,
   exam_data |-> exam_data,
   start_time |-> time,
   status |-> "in_progress",
   answers |-> EmptyAnswers,
   auto_save_count |-> <<0>>,
   last_save_time |-> <<>>,
   end_time |-> <<>>,
   score_result |-> <<>>]

\* create_exam_session, 1000-1030
create_exam_session(t, exam, rnd) ==
  /\ CanStart(t)
  /\ IF exam = <<>>
     THEN /\ Reply(t, "create_exam_session", NoId, 400)
          /\ UNCHANGED <<session_files, save_log>>
     ELSE LET session_id == SessionId(now, "urandom", rnd)
          IN /\ session_files' =
                  Dump(session_files, session_id,
                       NewSession(session_id, exam[1], now))
             /\ save_log' = [save_log EXCEPT ![session_id] = <<>>]
             /\ Reply(t, "create_exam_session", session_id, 200)
  /\ UNCHANGED <<record_files, now, threaded, callVars>>

\* start_exam, 1050-1092
start_exam(t, exam) ==
  /\ CanStart(t)
  /\ IF exam = <<>> \/ ~ExamTruthy(Get(exam, EmptyExam))
     THEN /\ Reply(t, "start_exam", NoId, 400)
          /\ UNCHANGED <<session_files, save_log>>
     ELSE LET session_id == SessionId(now, "hash", ExamHash(exam[1]))
          IN /\ session_files' =
                  Dump(session_files, session_id,
                       StartedSession(session_id, DefaultStudentName,
                                      exam[1], now))
             /\ save_log' = [save_log EXCEPT ![session_id] = <<>>]
             /\ Reply(t, "start_exam", session_id, 200)
  /\ UNCHANGED <<record_files, now, threaded, callVars>>

\* a bug: no existence check, an unknown session reads as an empty one
get_saved_answers_NoCheck(t, session_id) ==
  /\ CanStart(t)
  /\ Reply(t, "get_saved_answers", session_id, 200)
  /\ UNCHANGED <<session_files, record_files, now, threaded, save_log, callVars>>

\* get_saved_answers, 1034-1046
get_saved_answers(t, session_id) ==
  /\ CanStart(t)
  /\ Reply(t, "get_saved_answers", session_id,
       IF Exists(session_files, session_id) THEN 200 ELSE 404)
  /\ UNCHANGED <<session_files, record_files, now, threaded, save_log, callVars>>

\* exam_session['answers'][str(question_index)] = answer  (1118)
SetAnswer(answers, question_index, answer) ==
  [k \in DOMAIN answers \cup {IntStr(question_index)} |->
     IF k = IntStr(question_index) THEN answer ELSE answers[k]]

\* a bug: the counter is not incremented
UpdateSession_KeepCount(exam_session, question_index, answer, time) ==
  [exam_session EXCEPT
     !.answers = SetAnswer(@, question_index, answer),
     !.last_save_time = <<time>>]

\* the updates of 1118-1120 on a loaded session that has auto_save_count
UpdateSession(exam_session, question_index, answer, time) ==
  [exam_session EXCEPT
     !.answers = SetAnswer(@, question_index, answer),
     !.auto_save_count = <<@[1] + 1>>,
     !.last_save_time = <<time>>]

\* save_answer, 1098-1120: validate, load, update.
\* exam_session['auto_save_count'] += 1 raises KeyError when the key is absent.
save_answer(t, session_id, input) ==
  /\ CanStart(t)
  /\ IF input.question_index = <<>> \/ input.answer = <<>>
     THEN Reply(t, "save_answer", session_id, 400)
     ELSE IF ~Exists(session_files, session_id)
     THEN Reply(t, "save_answer", session_id, 404)
     ELSE LET exam_session == session_files[session_id]
          IN IF exam_session.auto_save_count = <<>>
             THEN Reply(t, "save_answer", session_id, 500)
             ELSE Goto(t, "save_write", session_id,
                    UpdateSession(exam_session, input.question_index[1],
                                  input.answer[1], now),
                    input)
  /\ UNCHANGED <<session_files, record_files, now, threaded, save_log, callVars>>

\* a bug-free variant: the write applies the update to the unit as it is at
\* the time of the write, as if load and write were one locked step
save_answer_write_Locked(t) ==
  /\ pc[t] = "save_write"
  /\ session_files' =
       Dump(session_files, local[t].session_id,
            UpdateSession(session_files[local[t].session_id],
                          local[t].input.question_index[1],
                          local[t].input.answer[1], now))
  /\ save_log' = [save_log EXCEPT ![local[t].session_id] =
       Append(@, [question_index |-> local[t].input.question_index[1],
                  answer |-> local[t].input.answer[1]])]
  /\ Reply(t, "save_answer", local[t].session_id, 200)
  /\ UNCHANGED <<record_files, now, threaded, requests, callVars>>

\* save_answer, 1123-1126: write the session file, respond success
save_answer_write(t) ==
  /\ pc[t] = "save_write"
  /\ session_files' =
       Dump(session_files, local[t].session_id, local[t].exam_session[1])
  /\ save_log' = [save_log EXCEPT ![local[t].session_id] =
       Append(@, [question_index |-> local[t].input.question_index[1],
                  answer |-> local[t].input.answer[1]])]
  /\ Reply(t, "save_answer", local[t].session_id, 200)
  /\ UNCHANGED <<record_files, now, threaded, requests, callVars>>

\* a bug: end_time is not stamped
CompleteSession_NoEndTime(exam_session, time) ==
  [exam_session EXCEPT
     !.status = "completed",
     !.score_result =
        <<calculate_exam_score(exam_session.exam_data, exam_session.answers)>>]

\* the updates of 1154-1159 on a loaded session
CompleteSession(exam_session, time) ==
  [exam_session EXCEPT
     !.status = "completed",
     !.end_time = <<time>>,
     !.score_result =
        <<calculate_exam_score(exam_session.exam_data, exam_session.answers)>>]

\* submit_exam, 1136-1159: load, score, update
submit_exam(t, session_id) ==
  /\ CanStart(t)
  /\ IF ~Exists(session_files, session_id)
     THEN Reply(t, "submit_exam", session_id, 404)
     ELSE Goto(t, "submit_write", session_id,
            CompleteSession(session_files[session_id], now), NoInput)
  /\ UNCHANGED <<session_files, record_files, now, threaded, save_log, callVars>>

\* submit_exam, 1162-1163: write the session file
submit_exam_write(t) ==
  /\ pc[t] = "submit_write"
  /\ session_files' =
       Dump(session_files, local[t].session_id, local[t].exam_session[1])
  /\ pc' = [pc EXCEPT ![t] = "submit_record_write"]
  /\ UNCHANGED <<record_files, now, threaded, local, response, requests,
                 save_log, callVars>>

\* submit_exam, 1166-1179: write the record file, respond success
submit_exam_record_write(t) ==
  /\ pc[t] = "submit_record_write"
  /\ record_files' =
       Dump(record_files, local[t].session_id, local[t].exam_session[1])
  /\ Reply(t, "submit_exam", local[t].session_id, 200)
  /\ UNCHANGED <<session_files, now, threaded, requests, save_log, callVars>>

\* get_exam_record_detail, 1343-1359
get_exam_record_detail(t, session_id) ==
  /\ CanStart(t)
  /\ Reply(t, "get_exam_record_detail", session_id,
       IF Exists(record_files, session_id) THEN 200 ELSE 404)
  /\ UNCHANGED <<session_files, record_files, now, threaded, save_log, callVars>>

\* ------------------------------------------------------------------------
\* Specifications
\* ------------------------------------------------------------------------

\* the session ids clients address: those of the units that exist and one
\* that was never created
RequestIds == DOMAIN session_files \cup {UnknownId}

Next ==
  \/ Tick
  \/ \E t \in Threads, exam \in CreateExams, rnd \in 1..NumRandom :
       create_exam_session(t, exam, rnd)
  \/ \E t \in Threads, exam \in StartExams : start_exam(t, exam)
  \/ \E t \in Threads, session_id \in RequestIds :
       get_saved_answers(t, session_id)
  \/ \E t \in Threads, session_id \in RequestIds, input \in SaveInputs :
       save_answer(t, session_id, input)
  \/ \E t \in Threads : save_answer_write(t)
  \/ \E t \in Threads, session_id \in RequestIds : submit_exam(t, session_id)
  \/ \E t \in Threads : submit_exam_write(t)
  \/ \E t \in Threads : submit_exam_record_write(t)
  \/ \E t \in Threads, session_id \in RequestIds :
       get_exam_record_detail(t, session_id)

\* requests served by concurrent threads
Init ==
  /\ InitMachine
  /\ threaded = TRUE
  /\ score_in = NoScoreIn
  /\ score_out = <<>>
  /\ NoOtherCalls

Spec == Init /\ [][Next]_vars

\* requests served one at a time
InitSeq ==
  /\ InitMachine
  /\ threaded = FALSE
  /\ score_in = NoScoreIn
  /\ score_out = <<>>
  /\ NoOtherCalls

SpecSeq == InitSeq /\ [][Next]_vars

\* ------------------------------------------------------------------------
\* calculate_exam_score as a function of bounded inputs
\* ------------------------------------------------------------------------

\* questions per exam
MaxQuestions == 2

Text(chars) == <<chars>>

\* the questions exams are built from: both answer formats of choice and
\* judge, a free-text question, a missing score and a negative score
ScoreQuestions ==
  {[type |-> "choice", score |-> <<2>>, answer |-> <<IntVal(2)>>,
    options |-> << << <<"w">>, <<"x">>, <<"y">>, <<"z">> >> >>,
    question |-> Text(<<"q", "1">>)],
   [type |-> "choice", score |-> <<>>, answer |-> <<IntVal(0)>>,
    options |-> << << <<"x">>, <<"y">> >> >>,
    question |-> Text(<<"q", "2">>)],
   [type |-> "choice", score |-> <<2>>, answer |-> <<StrVal(<<"b", "j">>)>>,
    options |-> << << <<" ", "b", "j">>, <<"s", "h">> >> >>,
    question |-> Text(<<"q", "3">>)],
   [type |-> "choice", score |-> <<-1>>, answer |-> <<IntVal(1)>>,
    options |-> << << <<"x">>, <<"y">> >> >>,
    question |-> Text(<<"q", "4">>)],
   [type |-> "judge", score |-> <<1>>, answer |-> <<BoolVal(TRUE)>>,
    options |-> <<>>, question |-> Text(<<"q", "5">>)],
   [type |-> "judge", score |-> <<1>>, answer |-> <<BoolVal(FALSE)>>,
    options |-> <<>>, question |-> Text(<<"q", "6">>)],
   [type |-> "judge", score |-> <<1>>, answer |-> <<StrVal(<<"b">>)>>,
    options |-> <<>>, question |-> Text(<<"q", "7">>)],
   [type |-> "essay", score |-> <<3>>, answer |-> <<StrVal(<<"b", "j">>)>>,
    options |-> <<>>, question |-> Text(<<"q", "8">>)]}

\* raw answers save_answer accepts (anything but null): strings ...
StringAnswers ==
  {StrVal(<<>>), StrVal(<<"A">>), StrVal(<<"B">>), StrVal(<<" ", "c", " ">>),
   StrVal(<<"E">>), StrVal(<<"b", "j">>)}

\* ... and other JSON values
NonStringAnswers == {IntVal(1), BoolVal(FALSE)}

ScoreAnswers == StringAnswers \cup NonStringAnswers

SeqsUpTo(S, n) == UNION {[1..k -> S] : k \in 0..n}

ScoreExams ==
  {[json |-> "object", questions |-> <<qs>>] :
     qs \in SeqsUpTo(ScoreQuestions, MaxQuestions)}

\* answer maps over the keys "0" .. str(MaxQuestions); the last key matches
\* no question of any exam
ScoreAnswerMaps ==
  UNION {[keys -> ScoreAnswers] :
           keys \in SUBSET {IntStr(i) : i \in 0..MaxQuestions}}

\* stored answer indices of the boundary questions are -1..MaxKey
MaxKey == 6

FourOptions == << <<"w">>, <<"x">>, <<"y">>, <<"z">> >>

\* choice questions keyed by an integer: every index from -1 to MaxKey next to
\* four options, and index 0 next to an empty option list (what generate_exam
\* stores when the AI gave no options)
ChoiceKeyQuestions ==
  {[type |-> "choice", score |-> <<2>>, answer |-> <<IntVal(k)>>,
    options |-> <<FourOptions>>, question |-> Text(<<"q">>)] : k \in -1..MaxKey}
    \cup {[type |-> "choice", score |-> <<2>>, answer |-> <<IntVal(0)>>,
            options |-> << <<>> >>, question |-> Text(<<"q">>)]}

\* choice questions in the legacy format: the stored answer is a text, a
\* letter, a digit, or absent; options padded with blanks, or absent
LegacyQuestions ==
  {[type |-> "choice", score |-> <<2>>, answer |-> <<StrVal(<<"b", "j">>)>>,
    options |-> << << <<"b", "j">>, <<"s", "h">> >> >>,
    question |-> Text(<<"q">>)],
   [type |-> "choice", score |-> <<2>>, answer |-> <<StrVal(<<" ", "s", "h">>)>>,
    options |-> << << <<"b", "j">>, <<"s", "h", " ">> >> >>,
    question |-> Text(<<"q">>)],
   [type |-> "choice", score |-> <<2>>, answer |-> <<StrVal(<<"A">>)>>,
    options |-> << << <<"x">>, <<"A">> >> >>,
    question |-> Text(<<"q">>)],
   [type |-> "choice", score |-> <<2>>, answer |-> <<StrVal(<<"1">>)>>,
    options |-> << << <<"1">>, <<"2">> >> >>,
    question |-> Text(<<"q">>)],
   [type |-> "choice", score |-> <<2>>, answer |-> <<StrVal(<<"b", "j">>)>>,
    options |-> <<>>, question |-> Text(<<"q">>)],
   [type |-> "choice", score |-> <<2>>, answer |-> <<>>,
    options |-> << << <<"b", "j">>, <<"s", "h">> >> >>,
    question |-> Text(<<"q">>)]}

\* judge questions keyed by a boolean
JudgeKeyQuestions ==
  {[type |-> "judge", score |-> <<1>>, answer |-> <<BoolVal(b)>>,
    options |-> <<>>, question |-> Text(<<"q">>)] : b \in BOOLEAN}

BoundaryQuestions ==
  ChoiceKeyQuestions \cup LegacyQuestions \cup JudgeKeyQuestions

\* raw answers at the boundaries of the normalizer: every letter A-G, lower
\* case, padding, two letters, texts, a digit, numbers and booleans
BoundaryAnswers ==
  {StrVal(<<c>>) : c \in {"A", "B", "C", "D", "E", "F", "G", "a", "b", "c", "1", " "}}
    \cup {StrVal(<<>>), StrVal(<<" ", "C", " ">>), StrVal(<<"c", "\n">>),
          StrVal(<<" ", "A">>), StrVal(<<"A", "B">>), StrVal(<<"b", "j">>),
          StrVal(<<"s", "h", " ">>), StrVal(<<"B", "J">>),
          IntVal(0), IntVal(1), BoolVal(TRUE), BoolVal(FALSE)}

\* one boundary question, answered or not
BoundaryInputs ==
  {[exam_data |-> [json |-> "object", questions |-> << <<question>> >>],
    answers |-> answers] :
     question \in BoundaryQuestions,
     answers \in {EmptyAnswers} \cup
                 {[key \in {IntStr(0)} |-> answer] : answer \in BoundaryAnswers}}

\* questions per exam of the weighted kind
MaxWeighted == 3

\* questions with the weights generate_exam assigns (choice 2, judge 1), and
\* a question worth nothing
WeightedQuestions ==
  {[type |-> "choice", score |-> <<2>>, answer |-> <<IntVal(k)>>,
    options |-> <<FourOptions>>, question |-> Text(<<"q">>)] : k \in 0..1}
    \cup {[type |-> "judge", score |-> <<1>>, answer |-> <<BoolVal(b)>>,
            options |-> <<>>, question |-> Text(<<"q">>)] : b \in BOOLEAN}
    \cup {[type |-> "judge", score |-> <<0>>, answer |-> <<BoolVal(TRUE)>>,
            options |-> <<>>, question |-> Text(<<"q">>)]}

\* exams of up to MaxWeighted such questions, each answered "A", "B" or not
WeightedInputs ==
  [exam_data : {[json |-> "object", questions |-> <<qs>>] :
                  qs \in SeqsUpTo(WeightedQuestions, MaxWeighted)},
   answers : UNION {[keys -> AnswerInputs] :
                      keys \in SUBSET {IntStr(i) : i \in 0..(MaxWeighted - 1)}}]

ScoreInputs ==
  [exam_data : ScoreExams, answers : ScoreAnswerMaps]
    \cup BoundaryInputs \cup WeightedInputs

InitScore ==
  /\ InitMachine
  /\ threaded = FALSE
  /\ score_in \in ScoreInputs
  /\ score_out = <<>>
  /\ NoOtherCalls

\* one call of calculate_exam_score(exam_data, answers)
calculate ==
  /\ score_out = <<>>
  /\ score_out' =
       <<calculate_exam_score(score_in.exam_data, score_in.answers)>>
  /\ UNCHANGED <<machineVars, score_in, questions_in, questions_out,
                 exam_in, exam_out, records_out, cacheVars>>

NextScore == calculate

SpecScore == InitScore /\ [][NextScore]_vars

\* ------------------------------------------------------------------------
\* generate_exam_questions (src/app.py 548-629)
\*
\* The AI response is a sequence of tokens: "[", "]", ",", white space, a
\* piece of text that is neither ("prose"), or the text of a JSON object or
\* string ("value"); of the texts inside a value only the option list of an
\* object has brackets.  json.loads and the regular expression of line 586
\* work on the tokens.  A JSON value is a record
\* [json, content, options, answer, analysis, items]: json is "object",
\* "string" or "array"; the four keys of an object are optional; items are
\* the elements of an array.
\* ------------------------------------------------------------------------

JsonObject(content, options, answer, analysis) ==
  [json |-> "object", content |-> content, options |-> options,
   answer |-> answer, analysis |-> analysis, items |-> <<>>]

JsonString ==
  [json |-> "string", content |-> <<>>, options |-> <<>>, answer |-> <<>>,
   analysis |-> <<>>, items |-> <<>>]

JsonArray(items) ==
  [json |-> "array", content |-> <<>>, options |-> <<>>, answer |-> <<>>,
   analysis |-> <<>>, items |-> items]

Token(tok, v) == [tok |-> tok, v |-> v]

LB == Token("[", JsonString)

RB == Token("]", JsonString)

COMMA == Token(",", JsonString)

WS == Token(" ", JsonString)

PROSE == Token("prose", JsonString)

ParseError == [ok |-> FALSE, value |-> JsonString, rest |-> <<>>]

Parsed(value, rest) == [ok |-> TRUE, value |-> value, rest |-> rest]

RECURSIVE SkipWs(_)
SkipWs(tokens) ==
  IF tokens # <<>> /\ Head(tokens) = WS THEN SkipWs(Tail(tokens)) ELSE tokens

RECURSIVE ParseValue(_)
RECURSIVE ParseItems(_, _)

\* one JSON value at the head of the tokens
ParseValue(tokens) ==
  LET ts == SkipWs(tokens)
  IN IF ts = <<>> THEN ParseError
     ELSE IF Head(ts).tok = "value" THEN Parsed(Head(ts).v, Tail(ts))
     ELSE IF Head(ts).tok = "["
     THEN IF SkipWs(Tail(ts)) # <<>> /\ Head(SkipWs(Tail(ts))) = RB
          THEN Parsed(JsonArray(<<>>), Tail(SkipWs(Tail(ts))))
          ELSE ParseItems(Tail(ts), <<>>)
     ELSE ParseError

\* the elements of an array after "[" or after ",", up to its "]"
ParseItems(tokens, items) ==
  LET item == ParseValue(tokens)
      ts == SkipWs(item.rest)
  IN IF ~item.ok \/ ts = <<>> THEN ParseError
     ELSE IF Head(ts) = COMMA
     THEN ParseItems(Tail(ts), Append(items, item.value))
     ELSE IF Head(ts) = RB
     THEN Parsed(JsonArray(Append(items, item.value)), Tail(ts))
     ELSE ParseError

\* json.loads(s): one value and nothing but white space around it; ok is
\* FALSE for JSONDecodeError
JsonLoads(tokens) ==
  LET r == ParseValue(tokens)
  IN IF r.ok /\ SkipWs(r.rest) = <<>> THEN r ELSE ParseError

\* the text of a JSON value
RECURSIVE Render(_)
RECURSIVE RenderItems(_)
Render(value) ==
  IF value.json = "array"
  THEN <<LB>> \o RenderItems(value.items) \o <<RB>>
  ELSE <<Token("value", value)>>

RenderItems(items) ==
  IF items = <<>> THEN <<>>
  ELSE IF Len(items) = 1 THEN Render(items[1])
  ELSE Render(Head(items)) \o <<COMMA, WS>> \o RenderItems(Tail(items))

\* the text of a value token has brackets of its own: the option list of an
\* object
Bracketed(token) == token.tok = "value" /\ token.v.options # <<>>

\* a piece of an object that a match begins or ends in
FRAGMENT == Token("fragment", JsonString)

\* re.search(r'\[.*\]', response, re.DOTALL): from the first "[" to the last
\* "]" of the text; <<>> for no match, else <<the match>>
Search(tokens) ==
  LET opens == {i \in DOMAIN tokens : tokens[i] = LB \/ Bracketed(tokens[i])}
  IN IF opens = {} THEN <<>>
     ELSE LET first == CHOOSE i \in opens : \A j \in opens : i <= j
              closes == {i \in first..Len(tokens) :
                           tokens[i] = RB \/ Bracketed(tokens[i])}
          IN IF closes = {} THEN <<>>
             ELSE LET last == CHOOSE i \in closes : \A j \in closes : j <= i
                  IN IF first = last
                     THEN <<Render(JsonArray(
                              [k \in DOMAIN tokens[first].v.options[1] |->
                                 JsonString]))>>
                     ELSE <<(IF tokens[first] = LB THEN <<LB>> ELSE <<FRAGMENT>>)
                              \o SubSeq(tokens, first + 1, last - 1)
                              \o (IF tokens[last] = RB THEN <<RB>>
                                                        ELSE <<FRAGMENT>>)>>

\* question_type of the two calls in generate_exam (914, 951)
ChoiceLabel == <<"u5355", "u9879", "u9009", "u62e9", "u9898">>

JudgeLabel == <<"u5224", "u65ad", "u9898">>

\* a bug: a candidate without analysis is accepted
IsValidQuestion_NoAnalysis(question, question_type) ==
  /\ question.json = "object"
  /\ question.content # <<>>
  /\ question.answer # <<>>
  /\ question_type = ChoiceLabel => question.options # <<>>

\* the checks of one loop iteration (603-616)
IsValidQuestion(question, question_type) ==
  /\ question.json = "object"
  /\ question.content # <<>>
  /\ question.answer # <<>>
  /\ question.analysis # <<>>
  /\ question_type = ChoiceLabel => question.options # <<>>

\* valid_questions after the loop of 602-618
RECURSIVE ValidQuestions(_, _)
ValidQuestions(questions, question_type) ==
  IF questions = <<>> THEN <<>>
  ELSE IF IsValidQuestion(Head(questions), question_type)
  THEN <<Head(questions)>> \o ValidQuestions(Tail(questions), question_type)
  ELSE ValidQuestions(Tail(questions), question_type)

\* list[:n]
SliceTo(list, n) ==
  IF n >= 0
  THEN SubSeq(list, 1, IF n < Len(list) THEN n ELSE Len(list))
  ELSE SubSeq(list, 1, Len(list) + n)

\* the outcome of the try block (572-621): the list returned, or the
\* exception raised in it
Returns(questions) == [exc |-> "none", questions |-> questions]

Raises(exc) == [exc |-> exc, questions |-> <<>>]

\* 593-621, after json.loads succeeded
Validated(questions, question_type, count) ==
  IF questions.json # "array" THEN Returns(<<>>)
  ELSE IF Len(questions.items) = 0 THEN Returns(<<>>)
  ELSE Returns(SliceTo(ValidQuestions(questions.items, question_type), count))

\* 572-621; ai_response is the response of get_ai_response, none for None
TryBlock(question_type, count, ai_response) ==
  IF ai_response.none \/ ai_response.tokens = <<>> THEN Returns(<<>>)
  ELSE IF SkipWs(ai_response.tokens) = <<>> THEN Returns(<<>>)
  ELSE IF JsonLoads(ai_response.tokens).ok
  THEN Validated(JsonLoads(ai_response.tokens).value, question_type, count)
  ELSE LET json_match == Search(ai_response.tokens)
       IN IF json_match = <<>> THEN Returns(<<>>)
          ELSE IF JsonLoads(json_match[1]).ok
          THEN Validated(JsonLoads(json_match[1]).value, question_type, count)
          ELSE Raises("JSONDecodeError")

\* a bug: no except clause, the exception of the second json.loads escapes
generate_exam_questions_Uncaught(chapters, question_type, count, ai_response) ==
  LET r == TryBlock(question_type, count, ai_response)
  IN [raised |-> r.exc # "none", questions |-> r.questions]

\* generate_exam_questions, 548-629, given the response of get_ai_response;
\* chapters is a list of strings, which line 549 joins
generate_exam_questions(chapters, question_type, count, ai_response) ==
  LET r == TryBlock(question_type, count, ai_response)
  IN IF r.exc = "JSONDecodeError" THEN [raised |-> FALSE, questions |-> <<>>]
     ELSE IF r.exc # "none" THEN [raised |-> FALSE, questions |-> <<>>]
     ELSE [raised |-> FALSE, questions |-> r.questions]

\* candidates per AI array
MaxCandidates == 3

\* requested counts are 1..MaxCount (generate_exam asks for count > 0)
MaxCount == 2

\* what the AI puts in its array: two complete choice questions, a complete
\* judge question (no options), a question without analysis, a string, and
\* an array
Candidates ==
  {JsonObject(<<content>>, <<FourOptions>>, <<StrVal(<<"x">>)>>, << <<"n">> >>) :
     content \in {<<"c", "1">>, <<"c", "2">>}}
    \cup {JsonObject(<< <<"c", "3">> >>, <<>>, <<StrVal(<<"t">>)>>, << <<"n">> >>),
          JsonObject(<< <<"c", "4">> >>, <<FourOptions>>, <<StrVal(<<"x">>)>>, <<>>),
          JsonString,
          JsonArray(<<JsonString>>)}

CandidateLists == SeqsUpTo(Candidates, MaxCandidates)

TextOf(tokens) == [none |-> FALSE, tokens |-> tokens]

\* an AI response with what it is: "empty", "unparseable" (also after the
\* extraction of line 586), "not array", "empty array", or "array" with the
\* candidates of the array
Shaped(ai_response, shape, array) ==
  [ai_response |-> ai_response, shape |-> shape, array |-> array]

\* the array alone, padded, and inside prose
ArrayResponses ==
  {Shaped(TextOf(pre \o Render(JsonArray(list)) \o post),
          IF list = <<>> THEN "empty array" ELSE "array", list) :
     list \in CandidateLists,
     pre \in {<<>>, <<WS>>, <<PROSE, WS>>},
     post \in {<<>>, <<WS, PROSE>>}}

\* the array cut before its last "]", ended by a comma, or after prose with
\* brackets of its own
BrokenResponses ==
  {Shaped(TextOf(SubSeq(Render(JsonArray(list)), 1,
                        Len(Render(JsonArray(list))) - 1)),
          "unparseable", <<>>) : list \in CandidateLists}
    \cup {Shaped(TextOf(<<LB>> \o RenderItems(list) \o <<COMMA, RB>>),
                 "unparseable", <<>>) : list \in CandidateLists \ {<<>>}}
    \cup {Shaped(TextOf(<<PROSE, LB, Token("value", JsonString), RB, PROSE>>
                          \o Render(JsonArray(list))),
                 "unparseable", <<>>) : list \in CandidateLists}

\* None, '', white space; the mock response and an object inside prose; an
\* object and a string
OtherResponses ==
  {Shaped([none |-> TRUE, tokens |-> <<>>], "empty", <<>>),
   Shaped(TextOf(<<>>), "empty", <<>>),
   Shaped(TextOf(<<WS, WS>>), "empty", <<>>),
   Shaped(TextOf(<<PROSE>>), "unparseable", <<>>),
   Shaped(TextOf(<<PROSE, Token("value", JsonObject(<<>>, <<>>, <<>>, <<>>)), PROSE>>),
          "unparseable", <<>>),
   Shaped(TextOf(<<Token("value", JsonObject(<<>>, <<>>, <<>>, <<>>))>>),
          "not array", <<>>),
   Shaped(TextOf(<<WS, Token("value", JsonString)>>), "not array", <<>>)}

Responses == ArrayResponses \cup BrokenResponses \cup OtherResponses

Chapters == << <<"c", "h">> >>

QuestionInputs ==
  {[chapters |-> Chapters, question_type |-> question_type, count |-> count,
    ai_response |-> r.ai_response, shape |-> r.shape, array |-> r.array] :
     question_type \in {ChoiceLabel, JudgeLabel}, count \in 1..MaxCount,
     r \in Responses}

InitQuestions ==
  /\ InitMachine
  /\ threaded = FALSE
  /\ score_in = NoScoreIn
  /\ score_out = <<>>
  /\ questions_in \in {<<x>> : x \in QuestionInputs}
  /\ questions_out = <<>>
  /\ exam_in = <<>>
  /\ exam_out = <<>>
  /\ records_out = <<>>
  /\ InitCache

\* one call of generate_exam_questions(chapters, question_type, count)
generate_questions ==
  /\ questions_out = <<>>
  /\ questions_out' =
       <<generate_exam_questions(questions_in[1].chapters,
                                 questions_in[1].question_type,
                                 questions_in[1].count,
                                 questions_in[1].ai_response)>>
  /\ UNCHANGED <<machineVars, score_in, score_out, questions_in, exam_in,
                 exam_out, records_out, cacheVars>>

NextQuestions == generate_questions

SpecQuestions == InitQuestions /\ [][NextQuestions]_vars

\* ------------------------------------------------------------------------
\* generate_exam (src/app.py 875-997)
\* ------------------------------------------------------------------------

\* str.lower() on one character
LowerChar(c) ==
  IF \E k \in DOMAIN UpperCase : UpperCase[k] = c
  THEN LowerCase[CHOOSE k \in DOMAIN UpperCase : UpperCase[k] = c]
  ELSE c

\* str.lower()
lower(str) == [k \in DOMAIN str |-> LowerChar(str[k])]

\* sub in str
Contains(sub, str) ==
  \E k \in 0..(Len(str) - Len(sub)) : SubSeq(str, k + 1, k + Len(sub)) = sub

\* the first zero-based index at which a for ... break loop of 925-934 finds
\* its test true, given the outcome of the test on each element of the list;
\* <<>> when there is none
FirstIndex(tests) ==
  IF \E i \in DOMAIN tests : tests[i]
  THEN <<(CHOOSE i \in DOMAIN tests :
            tests[i] /\ \A j \in 1..(i - 1) : ~tests[j]) - 1>>
  ELSE <<>>

\* a bug: the loop of 925-928 is missing, the first substring match is taken
AnswerIndex_SubstringOnly(answer_text, options) ==
  IF Truthy(answer_text) /\ options # <<>>
  THEN LET text == strip(answer_text.s)
           Partial ==
             [i \in DOMAIN options |->
                Contains(text, strip(options[i]))
                  \/ Contains(strip(options[i]), text)]
       IN Get(FirstIndex(Partial), 0)
  ELSE 0

\* answer_index of a choice question (921-934); answer_text is a string here
AnswerIndex(answer_text, options) ==
  IF Truthy(answer_text) /\ options # <<>>
  THEN LET text == strip(answer_text.s)
           Exact == [i \in DOMAIN options |-> text = strip(options[i])]
           Partial ==
             [i \in DOMAIN options |->
                Contains(text, strip(options[i]))
                  \/ Contains(strip(options[i]), text)]
           exact == Get(FirstIndex(Exact), 0)
       IN IF exact = 0 THEN Get(FirstIndex(Partial), 0) ELSE exact
  ELSE 0

\* the words of line 961 and of line 963
FalseWords ==
  {<<"u9519">>, <<"u9519", "u8bef">>, <<"f", "a", "l", "s", "e">>, <<"u5426">>,
   <<"u4e0d", "u6b63", "u786e">>, <<"u4e0d", "u5bf9">>}

TrueWords ==
  {<<"u5bf9">>, <<"u6b63", "u786e">>, <<"t", "r", "u", "e">>, <<"u662f">>,
   <<"u5bf9", "u7684">>}

\* a bug: the words for True are looked for first
AnswerBool_TrueFirst(answer_text) ==
  IF Truthy(answer_text)
  THEN LET answer_lower == strip(lower(answer_text.s))
       IN IF \E word \in TrueWords : Contains(word, answer_lower) THEN TRUE
          ELSE IF \E word \in FalseWords : Contains(word, answer_lower) THEN FALSE
          ELSE TRUE
  ELSE TRUE

\* answer_bool of a judge question (957-964); answer_text is a string here
AnswerBool(answer_text) ==
  IF Truthy(answer_text)
  THEN LET answer_lower == strip(lower(answer_text.s))
       IN IF \E word \in FalseWords : Contains(word, answer_lower) THEN FALSE
          ELSE IF \E word \in TrueWords : Contains(word, answer_lower) THEN TRUE
          ELSE TRUE
  ELSE TRUE

\* answer_text.strip() (926) and answer_text.lower() (959) exist on str only
ChoiceRaises(q) ==
  LET answer_text == Get(q.answer, EmptyStr)
  IN Truthy(answer_text) /\ Get(q.options, <<>>) # <<>> /\ answer_text.t # "str"

JudgeRaises(q) ==
  LET answer_text == Get(q.answer, EmptyStr)
  IN Truthy(answer_text) /\ answer_text.t # "str"

\* a bug: a choice question is weighted like a judge question
ChoiceQuestion_OnePoint(q) ==
  [type |-> "choice",
   question |-> <<Get(q.content, <<>>)>>,
   options |-> <<Get(q.options, <<>>)>>,
   answer |-> <<IntVal(AnswerIndex(Get(q.answer, EmptyStr), Get(q.options, <<>>)))>>,
   answer_text |-> Get(q.answer, EmptyStr),
   analysis |-> Get(q.analysis, <<>>),
   score |-> <<1>>]

\* the question appended at 936-944
ChoiceQuestion(q) ==
  [type |-> "choice",
   question |-> <<Get(q.content, <<>>)>>,
   options |-> <<Get(q.options, <<>>)>>,
   answer |-> <<IntVal(AnswerIndex(Get(q.answer, EmptyStr), Get(q.options, <<>>)))>>,
   answer_text |-> Get(q.answer, EmptyStr),
   analysis |-> Get(q.analysis, <<>>),
   score |-> <<2>>]

\* the question appended at 966-973; it has no options key
JudgeQuestion(q) ==
  [type |-> "judge",
   question |-> <<Get(q.content, <<>>)>>,
   options |-> <<>>,
   answer |-> <<BoolVal(AnswerBool(Get(q.answer, EmptyStr)))>>,
   answer_text |-> Get(q.answer, EmptyStr),
   analysis |-> Get(q.analysis, <<>>),
   score |-> <<1>>]

\* a JSON response of generate_exam: an error, or the exam
ExamError(code) == [code |-> code, exam |-> <<>>]

\* exam_data of 979-988 (title, subject, difficulty and duration left out)
ExamData(data, questions, total_score) ==
  [json |-> "object",
   chapters |-> data.chapters,
   totalScore |-> total_score,
   questions |-> <<questions>>,
   questionCount |-> Len(questions)]

\* generate_exam, 876-997, given the request and the AI responses of its two
\* calls of generate_exam_questions
generate_exam(data, choice_response, judge_response) ==
  IF ~data.json THEN ExamError(400)
  ELSE IF ~data.subject_ok THEN ExamError(400)
  ELSE IF data.chapters = <<>> THEN ExamError(400)
  ELSE IF data.types = {} THEN ExamError(400)
  ELSE
    LET choice ==
          IF ChoiceLabel \in data.types /\ data.choice_count > 0
          THEN generate_exam_questions(data.chapters, ChoiceLabel,
                                       data.choice_count, choice_response)
          ELSE [raised |-> FALSE, questions |-> <<>>]
        judge ==
          IF JudgeLabel \in data.types /\ data.judge_count > 0
          THEN generate_exam_questions(data.chapters, JudgeLabel,
                                       data.judge_count, judge_response)
          ELSE [raised |-> FALSE, questions |-> <<>>]
        choice_questions == choice.questions
        judge_questions == judge.questions
        questions ==
          [i \in 1..Len(choice_questions) |-> ChoiceQuestion(choice_questions[i])]
            \o [i \in 1..Len(judge_questions) |-> JudgeQuestion(judge_questions[i])]
        total_score == Len(choice_questions) * 2 + Len(judge_questions) * 1
    IN IF choice.raised
          \/ \E i \in 1..Len(choice_questions) : ChoiceRaises(choice_questions[i])
       THEN ExamError(500)
       ELSE IF judge.raised
          \/ \E i \in 1..Len(judge_questions) : JudgeRaises(judge_questions[i])
       THEN ExamError(500)
       ELSE IF questions = <<>> THEN ExamError(400)
       ELSE [code |-> 200, exam |-> <<ExamData(data, questions, total_score)>>]

\* candidates per AI array in a generate_exam request
MaxPerType == 2

\* choice candidates: the answer is the text of an option, the padded text of
\* an option, or a number; or the option list is empty
ChoiceCandidates ==
  {JsonObject(<< <<"c">> >>, <<FourOptions>>, <<answer>>, << <<"n">> >>) :
     answer \in {StrVal(<<"x">>), StrVal(<<" ", "z", " ">>), IntVal(2)}}
    \cup {JsonObject(<< <<"c">> >>, << <<>> >>, <<StrVal(<<"x">>)>>, << <<"n">> >>)}

\* judge candidates: the answer is a word for true, a word for false, or a
\* JSON boolean
JudgeCandidates ==
  {JsonObject(<< <<"c">> >>, <<>>, <<answer>>, << <<"n">> >>) :
     answer \in {StrVal(TextCorrect), StrVal(<<"F", "a", "l", "s", "e">>),
                 BoolVal(TRUE), BoolVal(FALSE)}}

\* the AI answers with an array of candidates or, when it is not available,
\* with the mock text
ExamResponses(candidates) ==
  {TextOf(Render(JsonArray(list))) : list \in SeqsUpTo(candidates, MaxPerType)}
    \cup {TextOf(<<PROSE>>)}

ExamRequest(json, subject_ok, chapters, types, choice_count, judge_count) ==
  [json |-> json, subject_ok |-> subject_ok, chapters |-> chapters,
   types |-> types, choice_count |-> choice_count, judge_count |-> judge_count]

\* every selection of types and counts, and the requests without body,
\* without a valid subject and without chapters
ExamRequests ==
  {ExamRequest(TRUE, TRUE, Chapters, types, choice_count, judge_count) :
     types \in SUBSET {ChoiceLabel, JudgeLabel},
     choice_count \in 0..MaxCount, judge_count \in 0..MaxCount}
    \cup {ExamRequest(FALSE, FALSE, <<>>, {}, 0, 0),
          ExamRequest(TRUE, FALSE, Chapters, {ChoiceLabel}, 1, 0),
          ExamRequest(TRUE, TRUE, <<>>, {ChoiceLabel}, 1, 0)}

\* option lists of one choice question: single letters, texts that contain
\* one another, padded and empty texts, no option at all
OptionLists ==
  {FourOptions,
   << <<"a", "b">>, <<"b">>, <<"a", "b", "c">> >>,
   << <<"b">>, <<"a", "b">>, <<"b", "c">> >>,
   << <<"a">>, <<>>, <<" ", "x">> >>,
   << <<"b", " ">>, <<"a", " ", "b">>, <<" ", "b">> >>,
   << <<"a">>, <<" ">> >>,
   <<>>}

\* answers of one choice question
AnswerTexts ==
  {<<"x">>, <<" ", "z", " ">>, <<"q">>, <<>>, <<" ">>, <<"w", "x">>, <<"a">>,
   <<"b">>, <<"a", "b">>, <<"b", "c">>, <<"a", "b", "c">>, <<" ", "b", "\n">>,
   <<"B">>}

\* answers of one judge question: each keyword of 960 and 962 alone, in
\* upper case, padded and inside a sentence, texts with keywords of both
\* kinds, texts without keyword
JudgeTexts ==
  FalseWords \cup TrueWords
    \cup {<<"F", "a", "l", "s", "e">>, <<"T", "R", "U", "E">>,
          <<" ", "u9519", "\n">>, <<" ", "u5bf9", " ">>,
          <<"u8fd9", "u662f", "u9519", "u7684">>,
          <<"u8fd9", "u662f", "u5bf9", "u7684">>,
          <<"u5bf9", "u6216", "u9519">>,
          <<"n", "o", "t", " ", "t", "r", "u", "e", ":", " ", "f", "a", "l", "s", "e">>,
          <<"m", "a", "y", "b", "e">>, <<"y", "e", "s">>, <<"u8bef">>,
          <<>>, <<" ">>}

\* requests for one question of one type, answered by the AI with one
\* candidate
ConversionInputs ==
  {[data |-> ExamRequest(TRUE, TRUE, Chapters, {ChoiceLabel}, 1, 0),
    choice_response |->
      TextOf(Render(JsonArray(<<JsonObject(<< <<"c">> >>, <<options>>,
                                           <<StrVal(answer)>>, << <<"n">> >>)>>))),
    judge_response |-> TextOf(<<PROSE>>)] :
     options \in OptionLists, answer \in AnswerTexts}
    \cup
  {[data |-> ExamRequest(TRUE, TRUE, Chapters, {JudgeLabel}, 0, 1),
    choice_response |-> TextOf(<<PROSE>>),
    judge_response |->
      TextOf(Render(JsonArray(<<JsonObject(<< <<"c">> >>, <<>>,
                                           <<StrVal(answer)>>, << <<"n">> >>)>>)))] :
     answer \in JudgeTexts}

ExamInputs ==
  [data : ExamRequests,
   choice_response : ExamResponses(ChoiceCandidates),
   judge_response : ExamResponses(JudgeCandidates)]
    \cup ConversionInputs

InitExam ==
  /\ InitMachine
  /\ threaded = FALSE
  /\ score_in = NoScoreIn
  /\ score_out = <<>>
  /\ questions_in = <<>>
  /\ questions_out = <<>>
  /\ exam_in \in {<<x>> : x \in ExamInputs}
  /\ exam_out = <<>>
  /\ records_out = <<>>
  /\ InitCache

\* one request to /api/generate_exam
generate ==
  /\ exam_out = <<>>
  /\ exam_out' =
       <<generate_exam(exam_in[1].data, exam_in[1].choice_response,
                       exam_in[1].judge_response)>>
  /\ UNCHANGED <<machineVars, score_in, score_out, questions_in,
                 questions_out, exam_in, records_out, cacheVars>>

NextExam == generate

SpecExam == InitExam /\ [][NextExam]_vars

\* ------------------------------------------------------------------------
\* get_exam_records (1298-1340)
\* ------------------------------------------------------------------------

\* JSON null, None after json.load
NoneVal == [t |-> "none", s |-> <<>>, n |-> 0, b |-> FALSE]

\* a < b on two characters; the end times are written with digits
CharLess(a, b) ==
  (CHOOSE k \in DOMAIN Digits : Digits[k] = a)
    < (CHOOSE k \in DOMAIN Digits : Digits[k] = b)

\* a < b on two str: the first differing character decides, a proper prefix
\* is smaller
RECURSIVE StrLess(_, _)
StrLess(a, b) ==
  IF b = <<>> THEN FALSE
  ELSE IF a = <<>> THEN TRUE
  ELSE IF Head(a) = Head(b) THEN StrLess(Tail(a), Tail(b))
  ELSE CharLess(Head(a), Head(b))

\* a < b is defined on two str and on two numbers; on any other pair of
\* these values it raises TypeError
Comparable(a, b) ==
  \/ a.t = "str" /\ b.t = "str"
  \/ a.t = "int" /\ b.t = "int"

\* a < b on two comparable values
KeyLess(a, b) == IF a.t = "str" THEN StrLess(a.s, b.s) ELSE a.n < b.n

\* a file of exam_records whose name does not end with '_result.json'
OtherFile == [stamp |-> 0, kind |-> "other", v |-> 0]

\* filename.endswith('_result.json') (1308)
IsResultFile(filename) == filename.kind # "other"

\* the content of an archive unit: text that json.load rejects (or a file
\* that cannot be read), a JSON array, or a JSON object; exam_data and
\* score_result are optional keys whose value is an object or not
InvalidUnit ==
  [json |-> "invalid", session_id |-> <<>>, end_time |-> <<>>,
   exam_data |-> <<>>, score_result |-> <<>>]

ArrayUnit ==
  [json |-> "array", session_id |-> <<>>, end_time |-> <<>>,
   exam_data |-> <<>>, score_result |-> <<>>]

ObjectUnit(session_id, end_time, exam_data, score_result) ==
  [json |-> "object", session_id |-> session_id, end_time |-> end_time,
   exam_data |-> exam_data, score_result |-> score_result]

ExamTitle == <<"t">>

DefaultExamTitle == <<"u672a", "u77e5", "u8bd5", "u5377">>

\* the exam_data and the score_result of a record that submit_exam wrote
RecordExamData == [json |-> "object", title |-> <<ExamTitle>>]

RecordScoreResult == [json |-> "object", total_score |-> <<2>>]

\* record.get(key, {}).get(...) (1318-1319, 1323-1325) raises AttributeError
\* when the value of the key is not a dict
NestedRaises(opt) == opt # <<>> /\ opt[1].json # "object"

\* the body of the inner try (1310-1327) raises: json.load fails, record is
\* not a dict, or a nested value is not a dict
UnitRaises(record) ==
  \/ record.json # "object"
  \/ NestedRaises(record.exam_data)
  \/ NestedRaises(record.score_result)

\* summary (1315-1326), with the keys session_id, exam_title, end_time and
\* total_score; the other six keys are read in the same two ways; the
\* session_id stays an optional value, <<>> standing for the default ''
Summary(record) ==
  [session_id |-> record.session_id,
   exam_title |-> IF record.exam_data = <<>> THEN DefaultExamTitle
                  ELSE Get(record.exam_data[1].title, DefaultExamTitle),
   end_time |-> Get(record.end_time, EmptyStr),
   total_score |-> IF record.score_result = <<>> THEN 0
                   ELSE Get(record.score_result[1].total_score, 0)]

\* records after the loop of 1307-1331 over the listing of the directory
RECURSIVE Summaries(_, _)
Summaries(listing, files) ==
  IF listing = <<>> THEN <<>>
  ELSE LET filename == Head(listing)
           rest == Summaries(Tail(listing), files)
       IN IF ~IsResultFile(filename) THEN rest
          ELSE IF UnitRaises(files[filename]) THEN rest
          ELSE <<Summary(files[filename])>> \o rest

\* key=lambda x: x.get('end_time', '') (1334)
SortKey(x) == x.end_time

\* a bug: the sort without reverse=True
RECURSIVE Insert_Ascending(_, _)
Insert_Ascending(x, sorted) ==
  IF sorted = <<>> THEN <<x>>
  ELSE IF KeyLess(SortKey(x), SortKey(Head(sorted))) THEN <<x>> \o sorted
  ELSE <<Head(sorted)>> \o Insert_Ascending(x, Tail(sorted))

\* x enters a list sorted in descending order before the first element with
\* a smaller key, so that equal keys keep the order of the list (the sort
\* is stable, also with reverse=True)
RECURSIVE Insert(_, _)
Insert(x, sorted) ==
  IF sorted = <<>> THEN <<x>>
  ELSE IF KeyLess(SortKey(Head(sorted)), SortKey(x)) THEN <<x>> \o sorted
  ELSE <<Head(sorted)>> \o Insert(x, Tail(sorted))

\* records.sort(key=..., reverse=True) (1334) on comparable keys
RECURSIVE SortRecords(_)
SortRecords(records) ==
  IF records = <<>> THEN <<>>
  ELSE Insert(records[Len(records)],
              SortRecords(SubSeq(records, 1, Len(records) - 1)))

\* records.sort raises TypeError: the sort of two or more records compares
\* keys, and some of the keys have no order
SortRaises(records) ==
  /\ Len(records) >= 2
  /\ \E i, j \in DOMAIN records :
       ~Comparable(SortKey(records[i]), SortKey(records[j]))

\* get_exam_records, 1299-1340, given os.listdir(records_dir) and the files;
\* a missing directory (1303) answers like an empty one
get_exam_records(listing, files) ==
  LET records == Summaries(listing, files)
  IN IF SortRaises(records)
     THEN [code |-> 500, records |-> <<>>]
     ELSE [code |-> 200, records |-> SortRecords(records)]

\* files in exam_records
MaxFiles == 3

RecordIds == {SessionId(0, "urandom", v) : v \in 1..MaxFiles}

\* end times as written by 1158, abbreviated to their digits
EndTimes == {<<"1">>, <<"1", "0">>, <<"9">>}

\* what a file of the archive holds: a record of submit_exam, a record
\* without end_time, a record with nothing but its id and end_time, or a
\* corrupt unit (unreadable text, an array, exam_data or score_result that is
\* no object, end_time null or a number)
UnitKinds ==
  {<<"record", end_time>> : end_time \in EndTimes}
    \cup {<<kind, <<>> >> :
            kind \in {"no_end_time", "sparse", "invalid", "array", "bad_exam_data",
                      "bad_score_result", "null_end_time", "int_end_time"}}

UnitOf(session_id, kind) ==
  CASE kind[1] = "record" ->
         ObjectUnit(<<session_id>>, <<StrVal(kind[2])>>,
                    <<RecordExamData>>, <<RecordScoreResult>>)
    [] kind[1] = "no_end_time" ->
         ObjectUnit(<<session_id>>, <<>>, <<RecordExamData>>, <<RecordScoreResult>>)
    [] kind[1] = "sparse" ->
         ObjectUnit(<<session_id>>, <<StrVal(<<"9">>)>>, <<>>, <<>>)
    [] kind[1] = "invalid" -> InvalidUnit
    [] kind[1] = "array" -> ArrayUnit
    [] kind[1] = "bad_exam_data" ->
         ObjectUnit(<<session_id>>, <<StrVal(<<"9">>)>>,
                    <<[json |-> "array", title |-> <<>>]>>, <<RecordScoreResult>>)
    [] kind[1] = "bad_score_result" ->
         ObjectUnit(<<session_id>>, <<StrVal(<<"9">>)>>,
                    <<RecordExamData>>, <<[json |-> "null", total_score |-> <<>>]>>)
    [] kind[1] = "null_end_time" ->
         ObjectUnit(<<session_id>>, <<NoneVal>>, <<RecordExamData>>, <<RecordScoreResult>>)
    [] kind[1] = "int_end_time" ->
         ObjectUnit(<<session_id>>, <<IntVal(5)>>, <<RecordExamData>>, <<RecordScoreResult>>)

\* the archives of up to MaxFiles result files, with or without another file
Archives ==
  UNION {{[filename \in ids \cup other |->
             IF filename \in ids THEN UnitOf(filename, kind[filename])
             ELSE InvalidUnit] :
            kind \in [ids -> UnitKinds], other \in {{}, {OtherFile}}} :
         ids \in SUBSET RecordIds}

\* os.listdir(records_dir): the names, in arbitrary order
Listings(files) ==
  {listing \in [1..Cardinality(DOMAIN files) -> DOMAIN files] :
     \A i, j \in DOMAIN listing : listing[i] = listing[j] => i = j}

InitRecords ==
  /\ session_files = [x \in {} |-> <<>>]
  /\ record_files \in Archives
  /\ now = 0
  /\ pc = [t \in Threads |-> "idle"]
  /\ local = [t \in Threads |-> NoLocal]
  /\ response = NoResponse
  /\ requests = 0
  /\ save_log = [x \in AllSessionIds \cup {UnknownId} |-> <<>>]
  /\ threaded = FALSE
  /\ score_in = NoScoreIn
  /\ score_out = <<>>
  /\ questions_in = <<>>
  /\ questions_out = <<>>
  /\ exam_in = <<>>
  /\ exam_out = <<>>
  /\ records_out = <<>>
  /\ InitCache

\* one request to /api/exam_records
get_records ==
  /\ records_out = <<>>
  /\ \E listing \in Listings(record_files) :
       records_out' = <<get_exam_records(listing, record_files)>>
  /\ UNCHANGED <<machineVars, score_in, score_out, questions_in,
                 questions_out, exam_in, exam_out, cacheVars>>

NextRecords == get_records

SpecRecords == InitRecords /\ [][NextRecords]_vars

\* ------------------------------------------------------------------------
\* Properties
\* ------------------------------------------------------------------------

\* some handler is between its load and its last write
Busy == \E t \in Threads : pc[t] # "idle"

\* this step is the first step of a handler and returns its response
RepliesAtOnce(op) ==
  /\ requests' # requests
  /\ pc' = pc
  /\ response'.op = op

\* C1: save_answer with a question index and an answer, on a session unit
\* that exists (created by create_exam_session or by start_exam), succeeds:
\* it is not rejected after validation, and its write stores the answer under
\* str(question_index), increments auto_save_count by one and answers 200.
C1_SaveAnswerSucceeds ==
  [][/\ (RepliesAtOnce("save_answer")
           /\ response'.session_id \in DOMAIN session_files)
        => response'.code = 400
     /\ \A t \in Threads :
          (pc[t] = "save_write" /\ pc'[t] = "idle") =>
            LET sid == local[t].session_id
                key == IntStr(local[t].input.question_index[1])
            IN /\ response'.code = 200
               /\ key \in DOMAIN session_files'[sid].answers
               /\ session_files'[sid].answers[key] = local[t].input.answer[1]
               /\ session_files'[sid].auto_save_count =
                    <<session_files[sid].auto_save_count[1] + 1>>]_vars

\* the question indices of a save log are pairwise distinct
DistinctIndices(log) ==
  \A i, j \in 1..Len(log) :
    i # j => log[i].question_index # log[j].question_index

\* C2: with requests served one at a time, after N successful save_answer
\* calls on N distinct question indices the session's auto_save_count is N and
\* its answers map has exactly those N keys, each with the value saved for it.
C2_CountAndAnswers ==
  \A sid \in DOMAIN session_files :
    LET log == save_log[sid]
        exam_session == session_files[sid]
    IN DistinctIndices(log) =>
         /\ (Len(log) > 0 \/ exam_session.auto_save_count # <<>>)
              => exam_session.auto_save_count = <<Len(log)>>
         /\ DOMAIN exam_session.answers =
              {IntStr(log[k].question_index) : k \in 1..Len(log)}
         /\ \A k \in 1..Len(log) :
              exam_session.answers[IntStr(log[k].question_index)] = log[k].answer

\* two saves on two distinct indices have succeeded on one session
C2_Witness ==
  \E sid \in DOMAIN session_files :
    /\ Len(save_log[sid]) = 2
    /\ DistinctIndices(save_log[sid])
    /\ session_files[sid].auto_save_count = <<2>>

\* C3: with requests served one at a time, once a session is completed no
\* step of a later save_answer or submit_exam changes its status, its end_time
\* or its score_result.
C3_CompletedOnce ==
  [][\A sid \in DOMAIN session_files :
       (Busy /\ session_files[sid].status = "completed") =>
         /\ session_files'[sid].status = "completed"
         /\ session_files'[sid].end_time = session_files[sid].end_time
         /\ session_files'[sid].score_result = session_files[sid].score_result]_vars

\* C4: with requests served one at a time, a session unit is completed iff
\* it has end_time and score_result; a unit that is not completed has neither.
C4_CompletedIffScored ==
  \A sid \in DOMAIN session_files :
    LET exam_session == session_files[sid]
    IN /\ exam_session.status \in {"not_started", "in_progress", "completed"}
       /\ exam_session.status = "completed" =>
            exam_session.end_time # <<>> /\ exam_session.score_result # <<>>
       /\ exam_session.status # "completed" =>
            exam_session.end_time = <<>> /\ exam_session.score_result = <<>>

\* a completed session next to one that is not, after a submit_exam
C4_Witness ==
  /\ response.op = "submit_exam" /\ response.code = 200
  /\ \E a, b \in DOMAIN session_files :
       /\ session_files[a].status = "completed"
       /\ session_files[b].status # "completed"

\* C5: once written, the archive record of a session keeps its answers, its
\* score_result and its end_time through every later step of save_answer and
\* submit_exam.
C5_RecordImmutable ==
  [][\A sid \in DOMAIN record_files :
       Busy =>
         /\ record_files'[sid].answers = record_files[sid].answers
         /\ record_files'[sid].score_result = record_files[sid].score_result
         /\ record_files'[sid].end_time = record_files[sid].end_time]_vars

Units(session_id) ==
  <<IF session_id \in DOMAIN session_files
      THEN <<session_files[session_id]>> ELSE <<>>,
    IF session_id \in DOMAIN record_files
      THEN <<record_files[session_id]>> ELSE <<>> >>

\* this step belongs to a save_answer, get_saved_answers or submit_exam
\* addressed to session_id
ActsOn(session_id) ==
  \/ \E t \in Threads :
       /\ pc[t] # "idle"
       /\ pc'[t] # pc[t]
       /\ local[t].session_id = session_id
  \/ \E t \in Threads :
       /\ pc[t] = "idle"
       /\ pc'[t] # "idle"
       /\ local'[t].session_id = session_id
  \/ \E op \in {"save_answer", "get_saved_answers", "submit_exam"} :
       RepliesAtOnce(op) /\ response'.session_id = session_id

\* C7: in every interleaving, a step of save_answer, get_saved_answers or
\* submit_exam addressed to session id a leaves the session unit and the
\* archive record of every other id b as they were.
C7_NoInterference ==
  [][\A b \in AllSessionIds \cup {UnknownId} :
       \/ Units(b)' = Units(b)
       \/ \A a \in (AllSessionIds \cup {UnknownId}) \ {b} : ~ActsOn(a)]_vars

\* a save_answer on one session and a submit_exam on another are both between
\* load and write
C7_Witness ==
  \E t, u \in Threads :
    /\ pc[t] = "save_write"
    /\ pc[u] = "submit_write"
    /\ local[t].session_id # local[u].session_id
    /\ local[t].session_id \in DOMAIN session_files
    /\ local[u].session_id \in DOMAIN session_files

RECURSIVE SumSeq(_)
SumSeq(numbers) ==
  IF numbers = <<>> THEN 0 ELSE Head(numbers) + SumSeq(Tail(numbers))

\* the questions of the exam that was scored
ScoredQuestions == Get(score_in.exam_data.questions, <<>>)

\* question.get('score', 1) of each scored question
QuestionScores ==
  [i \in 1..Len(ScoredQuestions) |-> Get(ScoredQuestions[i].score, 1)]

StringValued(answers) == \A k \in DOMAIN answers : answers[k].t = "str"

\* C8: whatever value save_answer stored for a question, the score completes:
\* one question_result per question, full_score the sum of the question
\* scores, and a question whose answer is missing or empty earns 0.
C8_ScoreAlwaysCompletes ==
  score_out # <<>> =>
    /\ ~score_out[1].error
    /\ Len(score_out[1].question_results) = Len(ScoredQuestions)
    /\ score_out[1].full_score = SumSeq(QuestionScores)
    /\ \A i \in 1..Len(score_out[1].question_results) :
         ~Truthy(UserAnswer(score_in.answers, i - 1)) =>
           /\ ~score_out[1].question_results[i].is_correct
           /\ score_out[1].question_results[i].earned_score = 0

\* C9: over string-valued answers there is one question_result per question,
\* in exam order, the i-th with question_index i (zero-based); keys that match
\* no question add nothing.
C9_OneResultPerQuestion ==
  (score_out # <<>> /\ StringValued(score_in.answers)) =>
    LET results == score_out[1].question_results
    IN /\ Len(results) = Len(ScoredQuestions)
       /\ \A i \in 1..Len(results) :
            /\ results[i].question_index = i - 1
            /\ results[i].question = Get(ScoredQuestions[i].question, <<>>)
            /\ results[i].question_type = ScoredQuestions[i].type

\* two different questions were scored against string answers that include a
\* key beyond the last question
C9_Witness ==
  /\ score_out # <<>>
  /\ StringValued(score_in.answers)
  /\ Len(ScoredQuestions) = 2
  /\ ScoredQuestions[1] # ScoredQuestions[2]
  /\ IntStr(2) \in DOMAIN score_in.answers
  /\ Len(score_out[1].question_results) = 2

\* C10: over string-valued answers, earned_score is the question's score when
\* is_correct and 0 otherwise, total_score is the sum of the earned scores,
\* full_score is the sum of the question scores, and 0 <= total_score <=
\* full_score when no question score is negative.
C10_ScoreSums ==
  (score_out # <<>> /\ StringValued(score_in.answers)) =>
    LET result == score_out[1]
        results == result.question_results
    IN /\ Len(results) = Len(ScoredQuestions)
       /\ \A i \in 1..Len(results) :
            results[i].earned_score =
              IF results[i].is_correct THEN QuestionScores[i] ELSE 0
       /\ result.total_score =
            SumSeq([i \in 1..Len(results) |-> results[i].earned_score])
       /\ result.full_score = SumSeq(QuestionScores)
       /\ (\A i \in 1..Len(QuestionScores) : QuestionScores[i] >= 0)
            => (0 <= result.total_score /\ result.total_score <= result.full_score)

\* one question answered correctly and one incorrectly, no negative score
C10_Witness ==
  /\ score_out # <<>>
  /\ StringValued(score_in.answers)
  /\ Len(score_out[1].question_results) = 2
  /\ score_out[1].question_results[1].is_correct
  /\ ~score_out[1].question_results[2].is_correct
  /\ \A i \in 1..Len(QuestionScores) : QuestionScores[i] >= 0
  /\ 0 < score_out[1].total_score
  /\ score_out[1].total_score < score_out[1].full_score

\* the raw answer of a scored question: the stored value or, for a missing
\* key, the empty string
RawAnswer(i) == UserAnswer(score_in.answers, i - 1)

\* the raw answer is a string that, trimmed and upper-cased, is the letter
\* with zero-based alphabet offset j
IsLetterAt(raw, j) ==
  /\ raw.t = "str"
  /\ upper(strip(raw.s)) = <<UpperCase[j + 1]>>

IntKeyed(question) ==
  /\ question.type = "choice"
  /\ question.answer # <<>>
  /\ question.answer[1].t = "int"

\* C11: a choice question keyed by an integer k is answered correctly iff the
\* raw answer, trimmed and upper-cased, is the letter among A-F whose offset
\* is k; when k indexes the options, a letter beyond the options is
\* incorrect; an exam of such questions is scored without error whatever the
\* answers are.
C11_ChoiceByIndex ==
  score_out # <<>> =>
    LET results == score_out[1].question_results
    IN /\ (\A i \in 1..Len(ScoredQuestions) : IntKeyed(ScoredQuestions[i]))
            => (~score_out[1].error /\ Len(results) = Len(ScoredQuestions))
       /\ \A i \in 1..Len(results) :
            IntKeyed(ScoredQuestions[i]) =>
              LET k == ScoredQuestions[i].answer[1].n
                  options == Get(ScoredQuestions[i].options, <<>>)
              IN /\ results[i].is_correct <=>
                      \E j \in 0..5 : IsLetterAt(RawAnswer(i), j) /\ j = k
                 /\ (0 <= k /\ k < Len(options)) =>
                      \A j \in 0..5 :
                        (IsLetterAt(RawAnswer(i), j) /\ j >= Len(options))
                          => ~results[i].is_correct

\* a question keyed 2 with four options was answered " c " and scored
\* correct, and the same question answered "E" scored incorrect
C11_Witness ==
  /\ score_out # <<>>
  /\ Len(score_out[1].question_results) = 2
  /\ \A i \in 1..2 :
       /\ IntKeyed(ScoredQuestions[i])
       /\ ScoredQuestions[i].answer[1].n = 2
       /\ Len(Get(ScoredQuestions[i].options, <<>>)) = 4
  /\ RawAnswer(1) = StrVal(<<" ", "c", " ">>)
  /\ RawAnswer(2) = StrVal(<<"E">>)
  /\ score_out[1].question_results[1].is_correct
  /\ ~score_out[1].question_results[2].is_correct

BoolKeyed(question) ==
  /\ question.type = "judge"
  /\ question.answer # <<>>
  /\ question.answer[1].t = "bool"

\* C12: a judge question keyed by a boolean b is scored for every raw answer;
\* it is answered correctly iff the raw answer is "A" and b is true, or "B"
\* and b is false; any other answer is incorrect; an empty or missing answer
\* is displayed as the "unanswered" text.
C12_JudgeByLetter ==
  score_out # <<>> =>
    LET results == score_out[1].question_results
    IN \A i \in 1..Len(ScoredQuestions) :
         BoolKeyed(ScoredQuestions[i]) =>
           /\ i <= Len(results)
           /\ LET b == ScoredQuestions[i].answer[1].b
                  raw == RawAnswer(i)
              IN /\ results[i].is_correct <=>
                      \/ raw = StrVal(<<"A">>) /\ b
                      \/ raw = StrVal(<<"B">>) /\ ~b
                 /\ raw = EmptyStr =>
                      results[i].user_answer = StrVal(TextUnanswered)

\* a choice question whose stored answer is a text, or absent (read as '')
LegacyKeyed(question) ==
  /\ question.type = "choice"
  /\ question.answer # <<>> => question.answer[1].t = "str"

\* the text of a raw answer, trimmed and upper-cased, is the letter at offset j
TextIsLetterAt(raw, j) == upper(strip(PyStr(raw))) = <<UpperCase[j + 1]>>

\* C13: a choice question in the legacy format, answered with a letter A-F,
\* is correct iff the letter's index is within the options and the option
\* there, trimmed, equals the stored answer trimmed; answered with anything
\* else it is correct iff the trimmed text of the raw answer equals the
\* trimmed stored answer; an exam of choice questions is scored without error.
C13_ChoiceLegacy ==
  score_out # <<>> =>
    LET results == score_out[1].question_results
    IN /\ (\A i \in 1..Len(ScoredQuestions) : ScoredQuestions[i].type = "choice")
            => (~score_out[1].error /\ Len(results) = Len(ScoredQuestions))
       /\ \A i \in 1..Len(results) :
            LegacyKeyed(ScoredQuestions[i]) =>
              LET stored == strip(Get(ScoredQuestions[i].answer, EmptyStr).s)
                  options == Get(ScoredQuestions[i].options, <<>>)
                  raw == RawAnswer(i)
              IN IF \E j \in 0..5 : TextIsLetterAt(raw, j)
                 THEN results[i].is_correct <=>
                        \E j \in 0..5 :
                          /\ TextIsLetterAt(raw, j)
                          /\ j < Len(options)
                          /\ strip(options[j + 1]) = stored
                 ELSE results[i].is_correct <=> strip(PyStr(raw)) = stored

\* a legacy question answered "A" resolved to its first option and scored
\* correct, and the same question answered "E", beyond its options, scored
\* incorrect
C13_Witness ==
  /\ score_out # <<>>
  /\ Len(score_out[1].question_results) = 2
  /\ \A i \in 1..2 :
       /\ LegacyKeyed(ScoredQuestions[i])
       /\ Len(Get(ScoredQuestions[i].options, <<>>)) = 2
  /\ RawAnswer(1) = StrVal(<<"A">>)
  /\ RawAnswer(2) = StrVal(<<"E">>)
  /\ score_out[1].question_results[1].is_correct
  /\ ~score_out[1].question_results[2].is_correct

Abs(x) == IF x < 0 THEN 0 - x ELSE x

\* percentage, in hundredths, is total_score / full_score * 100 rounded to
\* two decimals: no other hundredth is nearer
IsRounded(percentage, total_score, full_score) ==
  2 * Abs(percentage * full_score - total_score * 10000) <= Abs(full_score)

\* for non-negative question scores the percentage is within 0..100
PercentageInRange ==
  (\A i \in 1..Len(QuestionScores) : QuestionScores[i] >= 0)
    => (0 <= score_out[1].percentage /\ score_out[1].percentage <= 10000)

\* two 2-point choice questions and a 1-point judge question, questions 0 and
\* 2 answered correctly and question 1 incorrectly
TwoOfThreeCorrect ==
  /\ Len(score_out[1].question_results) = 3
  /\ <<ScoredQuestions[1].type, ScoredQuestions[2].type, ScoredQuestions[3].type>>
       = <<"choice", "choice", "judge">>
  /\ QuestionScores = <<2, 2, 1>>
  /\ score_out[1].question_results[1].is_correct
  /\ ~score_out[1].question_results[2].is_correct
  /\ score_out[1].question_results[3].is_correct

\* 3 of 5 points are 60.0 percent
ThreeOfFive ==
  TwoOfThreeCorrect =>
    /\ score_out[1].total_score = 3
    /\ score_out[1].full_score = 5
    /\ score_out[1].percentage = 6000

\* C15 as stated: the percentage of a completed score is 0 when full_score is
\* 0 and otherwise total_score / full_score * 100 rounded to two decimals; it
\* is within 0..100 for non-negative question scores; 3 of 5 points are 60.0.
C15_PercentageUnlessZero ==
  (score_out # <<>> /\ ~score_out[1].error) =>
    /\ score_out[1].full_score = 0 => score_out[1].percentage = 0
    /\ score_out[1].full_score # 0 =>
         IsRounded(score_out[1].percentage, score_out[1].total_score,
                   score_out[1].full_score)
    /\ PercentageInRange
    /\ ThreeOfFive

\* C15, amended: the percentage of a completed score is 0 when full_score is
\* 0 or negative, and otherwise total_score / full_score * 100 rounded to two
\* decimals; it is within 0..100 for non-negative question scores; 3 of 5
\* points are 60.0.
C15_Percentage ==
  (score_out # <<>> /\ ~score_out[1].error) =>
    /\ score_out[1].full_score <= 0 => score_out[1].percentage = 0
    /\ score_out[1].full_score > 0 =>
         IsRounded(score_out[1].percentage, score_out[1].total_score,
                   score_out[1].full_score)
    /\ PercentageInRange
    /\ ThreeOfFive

\* the exam of two choice questions and one judge question was scored 3 of 5
C15_Witness ==
  /\ score_out # <<>>
  /\ TwoOfThreeCorrect
  /\ score_in.answers =
       [key \in {IntStr(0), IntStr(1), IntStr(2)} |->
          IF key = IntStr(1) THEN StrVal(<<"B">>) ELSE StrVal(<<"A">>)]
  /\ score_out[1].percentage = 6000

\* a candidate is a mapping with content, answer and analysis and, for the
\* choice type, options
ValidCandidate(candidate, question_type) ==
  /\ candidate.json = "object"
  /\ candidate.content # <<>> /\ candidate.answer # <<>>
  /\ candidate.analysis # <<>>
  /\ question_type = ChoiceLabel => candidate.options # <<>>

\* C17: when the AI response holds an array (alone or inside prose),
\* generate_exam_questions returns the first count valid candidates of the
\* array in their order, all of them when fewer are valid; invalid candidates
\* are left out and do not use up the count.
C17_FirstValidCandidates ==
  (questions_out # <<>> /\ questions_in[1].shape = "array") =>
    LET array == questions_in[1].array
        valid == {i \in DOMAIN array :
                    ValidCandidate(array[i], questions_in[1].question_type)}
        nth(k) == CHOOSE i \in valid : Cardinality({j \in valid : j < i}) = k - 1
        returned == questions_out[1].questions
    IN /\ ~questions_out[1].raised
       /\ Len(returned) =
            IF Cardinality(valid) < questions_in[1].count
            THEN Cardinality(valid) ELSE questions_in[1].count
       /\ \A k \in 1..Len(returned) : returned[k] = array[nth(k)]

\* an array inside prose whose first candidate is invalid and whose next two
\* are valid and different; one question was requested and the second
\* candidate returned
C17_Witness ==
  /\ questions_out # <<>>
  /\ questions_in[1].shape = "array"
  /\ Head(questions_in[1].ai_response.tokens) = PROSE
  /\ questions_in[1].count = 1
  /\ Len(questions_in[1].array) = 3
  /\ ~ValidCandidate(questions_in[1].array[1], questions_in[1].question_type)
  /\ ValidCandidate(questions_in[1].array[2], questions_in[1].question_type)
  /\ ValidCandidate(questions_in[1].array[3], questions_in[1].question_type)
  /\ questions_in[1].array[2] # questions_in[1].array[3]
  /\ questions_out[1].questions = <<questions_in[1].array[2]>>

\* C18: generate_exam_questions does not raise to its caller; when the AI
\* response is empty, cannot be parsed even after the extraction from the
\* first "[" to the last "]", is no array, or is an empty array, it returns
\* the empty list.
C18_NeverRaises ==
  questions_out # <<>> =>
    /\ ~questions_out[1].raised
    /\ questions_in[1].shape \in {"empty", "unparseable", "not array", "empty array"}
         => questions_out[1].questions = <<>>

\* the response failed json.loads, the extraction matched, and the match
\* failed json.loads again: the empty list was returned
C18_Witness ==
  /\ questions_out # <<>>
  /\ questions_in[1].shape = "unparseable"
  /\ Search(questions_in[1].ai_response.tokens) # <<>>
  /\ ~questions_out[1].raised
  /\ questions_out[1].questions = <<>>

\* the questions of the exam generate_exam returned
GeneratedQuestions == exam_out[1].exam[1].questions[1]

OfType(type) == {i \in DOMAIN GeneratedQuestions : GeneratedQuestions[i].type = type}

\* C16: an exam returned by generate_exam has totalScore equal to the sum of
\* the score fields of its questions; each choice question has score 2 and
\* each judge question score 1, whatever the numbers of choice and judge
\* questions generated.
C16_TotalScore ==
  (exam_out # <<>> /\ exam_out[1].code = 200) =>
    /\ exam_out[1].exam # <<>>
    /\ GeneratedQuestions # <<>>
    /\ exam_out[1].exam[1].totalScore =
         SumSeq([i \in DOMAIN GeneratedQuestions |-> GeneratedQuestions[i].score[1]])
    /\ \A i \in DOMAIN GeneratedQuestions :
         /\ GeneratedQuestions[i].type \in {"choice", "judge"}
         /\ GeneratedQuestions[i].type = "choice" => GeneratedQuestions[i].score = <<2>>
         /\ GeneratedQuestions[i].type = "judge" => GeneratedQuestions[i].score = <<1>>
    /\ exam_out[1].exam[1].totalScore =
         2 * Cardinality(OfType("choice")) + Cardinality(OfType("judge"))

\* both types were requested, the AI gave two choice questions and no judge
\* question, and the exam returned has totalScore 4
C16_Witness ==
  /\ exam_out # <<>>
  /\ exam_out[1].code = 200
  /\ exam_in[1].data.types = {ChoiceLabel, JudgeLabel}
  /\ exam_in[1].data.judge_count > 0
  /\ Cardinality(OfType("choice")) = 2
  /\ OfType("judge") = {}
  /\ exam_out[1].exam[1].totalScore = 4

\* the listing was answered with the summaries
Listed == records_out # <<>> /\ records_out[1].code = 200

\* the record of this summary has no end_time key in the archive
MissingEndTime(summary) ==
  /\ summary.session_id # <<>>
  /\ record_files[summary.session_id[1]].end_time = <<>>

\* the record of this summary has an end_time string in the archive
HasEndTime(summary) == ~MissingEndTime(summary) /\ summary.end_time.t = "str"

\* no summary is followed by one with a greater end_time
Descending(records) ==
  \A i \in 1..(Len(records) - 1) :
    ~KeyLess(SortKey(records[i]), SortKey(records[i + 1]))

\* C19 as stated: the summaries that get_exam_records returns are in
\* descending order of end_time, compared as strings, and a record without
\* end_time stands before every record that has one.
C19_SortedMissingFirst ==
  Listed =>
    LET records == records_out[1].records
    IN /\ Descending(records)
       /\ \A i, j \in DOMAIN records :
            MissingEndTime(records[i]) /\ HasEndTime(records[j]) => i < j

\* C19: the summaries that get_exam_records returns are in descending order
\* of end_time, compared as strings, and a record without end_time stands
\* after every record that has one.
C19_SortedMissingLast ==
  Listed =>
    LET records == records_out[1].records
    IN /\ Descending(records)
       /\ \A i, j \in DOMAIN records :
            MissingEndTime(records[i]) /\ HasEndTime(records[j]) => j < i

\* three records are listed: end_time "9", then "10", then the record
\* without end_time
C19_Witness ==
  /\ Listed
  /\ Len(records_out[1].records) = 3
  /\ records_out[1].records[1].end_time = StrVal(<<"9">>)
  /\ records_out[1].records[2].end_time = StrVal(<<"1", "0">>)
  /\ MissingEndTime(records_out[1].records[3])

\* a unit that holds a record: an object whose exam_data and score_result
\* are objects or absent and whose end_time is a string or absent
WellFormed(record) ==
  /\ ~UnitRaises(record)
  /\ record.end_time # <<>> => record.end_time[1].t = "str"

\* C20: the listing succeeds whatever the archive holds, and it returns the
\* summaries of the well-formed records and of no other unit.
C20_CorruptSkipped ==
  records_out # <<>> =>
    /\ records_out[1].code = 200
    /\ {records_out[1].records[i].session_id : i \in DOMAIN records_out[1].records}
         = {<<filename>> : filename \in
              {f \in DOMAIN record_files :
                 IsResultFile(f) /\ WellFormed(record_files[f])}}

\* C21, for start_exam (the suffix of create_exam_session is 8 random bytes,
\* whose collisions are a matter of probability): a start_exam that answers
\* 200 returns a session id that no session unit has, so that its write
\* creates a unit and leaves every existing unit as it was.
C21_StartExamFreshId ==
  [][(RepliesAtOnce("start_exam") /\ response'.code = 200) =>
       /\ response'.session_id \notin DOMAIN session_files
       /\ \A sid \in DOMAIN session_files :
            session_files'[sid] = session_files[sid]]_vars

\* thread t performs the write of a save_answer in this step
SaveWrites(t) == pc[t] = "save_write" /\ pc'[t] = "idle"

\* C22: the write of a save_answer stores the whole session as the call
\* loaded and updated it, whatever was written to the unit since the load; the
\* call answers 200.
C22_LastWriterWins ==
  [][\A t \in Threads :
       SaveWrites(t) =>
         /\ session_files'[local[t].session_id] = local[t].exam_session[1]
         /\ response' = Response("save_answer", local[t].session_id, 200)]_vars

\* two save_answer calls on one session and two question indices have both
\* answered 200, no call is under way, and the unit holds one answer and
\* auto_save_count 1
C22_Witness ==
  /\ ~Busy
  /\ \E sid \in DOMAIN session_files :
       /\ Len(save_log[sid]) = 2
       /\ DistinctIndices(save_log[sid])
       /\ Cardinality(DOMAIN session_files[sid].answers) = 1
       /\ session_files[sid].auto_save_count = <<1>>

\* C23: in every interleaving, the write of a save_answer never leaves the
\* persisted auto_save_count of its session lower than it was before the
\* write.
C23_CountMonotonic ==
  [][\A t \in Threads :
       SaveWrites(t) =>
         LET sid == local[t].session_id
         IN /\ session_files'[sid].auto_save_count # <<>>
            /\ session_files'[sid].auto_save_count[1]
                 >= session_files[sid].auto_save_count[1]]_vars

\* thread t performs a write of save_answer or of submit_exam in this step
Writes(t) == pc[t] # "idle" /\ pc'[t] # pc[t]

\* C24: in every interleaving of save_answer and submit_exam, no write of
\* either handler takes a completed session unit back to another status, and
\* the write of the archive record of a completed session leaves the session
\* unit with the score_result of the record.
C24_CompletedForGood ==
  [][\A t \in Threads :
       (Writes(t) /\ session_files[local[t].session_id].status = "completed") =>
         LET sid == local[t].session_id
         IN /\ session_files'[sid].status = "completed"
            /\ pc[t] = "submit_record_write" =>
                 session_files'[sid].score_result = record_files'[sid].score_result]_vars

\* the choice question of an exam generated from one candidate
OneChoiceQuestion ==
  /\ exam_out # <<>>
  /\ exam_out[1].code = 200
  /\ exam_in[1] \in ConversionInputs
  /\ Len(GeneratedQuestions) = 1
  /\ GeneratedQuestions[1].type = "choice"

\* the zero-based indices of the options that equal the answer, both trimmed
ExactMatches(text, options) ==
  {i - 1 : i \in {j \in DOMAIN options : strip(options[j]) = strip(text)}}

\* the zero-based indices of the options that contain the answer or are
\* contained in it, both trimmed
SubstringMatches(text, options) ==
  {i - 1 : i \in {j \in DOMAIN options :
                    \/ Contains(strip(text), strip(options[j]))
                    \/ Contains(strip(options[j]), strip(text))}}

Min(S) == CHOOSE x \in S : \A y \in S : x <= y

\* C25: the answer index stored for a choice question is the index of the
\* first option that equals the answer text, both trimmed, when there is one;
\* otherwise the first option that contains the answer text or is contained in
\* it; otherwise 0; answer_text is the answer as the AI gave it.
C25_AnswerIndex ==
  OneChoiceQuestion =>
    LET q == GeneratedQuestions[1]
        text == q.answer_text.s
        options == q.options[1]
    IN /\ q.answer_text.t = "str"
       /\ exam_in[1].choice_response =
            TextOf(Render(JsonArray(<<JsonObject(<<q.question[1]>>, <<options>>,
                                                 <<q.answer_text>>, <<q.analysis>>)>>)))
       /\ q.answer =
            <<IntVal(IF ExactMatches(text, options) # {}
                     THEN Min(ExactMatches(text, options))
                     ELSE IF SubstringMatches(text, options) # {}
                     THEN Min(SubstringMatches(text, options))
                     ELSE 0)>>

\* C25, amended: for a non-empty answer text the stored index is the index of
\* the first option that equals it, both trimmed, when there is one, otherwise
\* the first option that contains it or is contained in it, otherwise 0; for
\* an empty answer text it is 0 whatever the options are; answer_text is the
\* answer as the AI gave it.
C25_AnswerIndexOfText ==
  OneChoiceQuestion =>
    LET q == GeneratedQuestions[1]
        text == q.answer_text.s
        options == q.options[1]
    IN /\ q.answer_text.t = "str"
       /\ exam_in[1].choice_response =
            TextOf(Render(JsonArray(<<JsonObject(<<q.question[1]>>, <<options>>,
                                                 <<q.answer_text>>, <<q.analysis>>)>>)))
       /\ q.answer =
            <<IntVal(IF text = <<>> THEN 0
                     ELSE IF ExactMatches(text, options) # {}
                     THEN Min(ExactMatches(text, options))
                     ELSE IF SubstringMatches(text, options) # {}
                     THEN Min(SubstringMatches(text, options))
                     ELSE 0)>>

\* the answer "b" with the options "ab", "b", "abc": the first option
\* contains the answer, the second equals it, and index 1 is stored
C25_Witness ==
  /\ OneChoiceQuestion
  /\ GeneratedQuestions[1].answer_text = StrVal(<<"b">>)
  /\ GeneratedQuestions[1].options =
       << << <<"a", "b">>, <<"b">>, <<"a", "b", "c">> >> >>
  /\ GeneratedQuestions[1].answer = <<IntVal(1)>>

\* the judge question of an exam generated from one candidate
OneJudgeQuestion ==
  /\ exam_out # <<>>
  /\ exam_out[1].code = 200
  /\ exam_in[1] \in ConversionInputs
  /\ Len(GeneratedQuestions) = 1
  /\ GeneratedQuestions[1].type = "judge"

\* the false keywords as the specification lists them
SpecFalseKeywords ==
  {<<"u9519">>, <<"u9519", "u8bef">>, <<"f", "a", "l", "s", "e">>, <<"u5426">>,
   <<"u4e0d", "u6b63", "u786e">>, <<"u4e0d", "u5bf9">>}

\* the true keywords as the specification lists them
SpecTrueKeywords ==
  {<<"u5bf9">>, <<"u6b63", "u786e">>, <<"t", "r", "u", "e">>, <<"u662f">>,
   <<"u5bf9", "u7684">>}

\* the lower-cased, trimmed text contains one of the keywords
HasKeyword(text, keywords) ==
  \E word \in keywords : Contains(word, strip(lower(text)))

\* C26: the answer stored for a judge question is false iff the lower-cased,
\* trimmed answer text contains a false keyword, and true otherwise: with a
\* true keyword only, with no keyword, and for the empty text; answer_text is
\* the answer as the AI gave it.
C26_JudgeKeywords ==
  OneJudgeQuestion =>
    LET q == GeneratedQuestions[1]
    IN /\ q.answer_text.t = "str"
       /\ exam_in[1].judge_response =
            TextOf(Render(JsonArray(<<JsonObject(<<q.question[1]>>, <<>>,
                                                 <<q.answer_text>>, <<q.analysis>>)>>)))
       /\ q.answer = <<BoolVal(~HasKeyword(q.answer_text.s, SpecFalseKeywords))>>

\* a text with a keyword of each kind is stored as false
C26_Witness ==
  /\ OneJudgeQuestion
  /\ HasKeyword(GeneratedQuestions[1].answer_text.s, SpecFalseKeywords)
  /\ HasKeyword(GeneratedQuestions[1].answer_text.s, SpecTrueKeywords)
  /\ GeneratedQuestions[1].answer_text.s = <<"u4e0d", "u6b63", "u786e">>
  /\ GeneratedQuestions[1].answer = <<BoolVal(FALSE)>>

\* C27: in the result of a judge question keyed by a boolean b, the student's
\* answer is shown as the "correct" text when it was scored as true, as the
\* "wrong" text when it was scored as false, as the "unanswered" text when the
\* answers map has no entry for the question, and as nothing but these three
\* texts; the correct answer is shown as the "correct" or the "wrong" text
\* according to b.
C27_JudgeDisplay ==
  score_out # <<>> =>
    LET results == score_out[1].question_results
    IN \A i \in 1..Len(results) :
         BoolKeyed(ScoredQuestions[i]) =>
           LET b == ScoredQuestions[i].answer[1].b
               shown == results[i].user_answer
           IN /\ (results[i].is_correct /\ b) => shown = StrVal(TextCorrect)
              /\ (results[i].is_correct /\ ~b) => shown = StrVal(TextWrong)
              /\ IntStr(i - 1) \notin DOMAIN score_in.answers
                   => shown = StrVal(TextUnanswered)
              /\ shown \in {StrVal(TextCorrect), StrVal(TextWrong),
                            StrVal(TextUnanswered)}
              /\ results[i].correct_answer =
                   StrVal(IF b THEN TextCorrect ELSE TextWrong)

\* ------------------------------------------------------------------------
\* MemoryCache and the handlers that use it: /api/chapters, /api/explain,
\* DELETE /api/subjects/<subject_name>, /api/cache/clear
\* ------------------------------------------------------------------------

\* the lifetime that MemoryCache.get compares an entry's age with, in
\* seconds
Lifetime == 300

\* the ttl that get_chapters passes to memory_cache.set
ChaptersTtl == 600

\* the ttl that get_ai_explanation passes to memory_cache.set
ExplanationTtl == 1800

\* the clock is read every SecondsPerTick seconds, MaxClock times at most
SecondsPerTick == 150

MaxClock == 5

\* a dict with one more item
Put(dict, key, value) ==
  [k \in DOMAIN dict \cup {key} |-> IF k = key THEN value ELSE dict[k]]

\* a dict without the key
Pop(dict, key) == [k \in DOMAIN dict \ {key} |-> dict[k]]

\* MemoryCache.get(key) at the given time: the value returned (<<>> is the
\* default None) and the cache afterwards; an entry of Lifetime seconds or
\* older is removed
MemoryCache_get(mc, key, time) ==
  IF key \in DOMAIN mc.cache
    THEN IF time - mc.timestamps[key] < Lifetime
           THEN [value |-> <<mc.cache[key]>>, memory_cache |-> mc]
           ELSE [value |-> <<>>,
                 memory_cache |->
                   [cache |-> Pop(mc.cache, key),
                    timestamps |-> Pop(mc.timestamps, key)]]
    ELSE [value |-> <<>>, memory_cache |-> mc]

\* MemoryCache.set(key, value, ttl) at the given time: ttl is not stored
MemoryCache_set(mc, key, value, ttl, time) ==
  [cache |-> Put(mc.cache, key, value),
   timestamps |-> Put(mc.timestamps, key, time)]

\* MemoryCache.clear()
MemoryCache_clear(mc) == EmptyCache

\* the record of a set: when, with which ttl, which value
LogSet(log, key, value, ttl, time) ==
  [log EXCEPT ![key] = <<[time |-> time, ttl |-> ttl, value |-> value]>>]

\* `if cached:` of a value that get returned; None, an empty list and an
\* empty string are falsy
Hit(got) == got.value # <<>> /\ got.value[1] # <<>>

\* clear_config_cache(): cache_clear() of the lru caches, once per subject
\* that get_available_subjects() lists
clear_config_cache(available, loaded) ==
  IF available = {} THEN loaded ELSE {}

\* a response of one of the handlers; stored is the record of the last set
\* of the key before the request, read tells whether the handler called
\* memory_cache.get, memory whether the body came from memory_cache
CacheReply(op, subject, key, read, code, memory, body) ==
  [op |-> op, subject |-> subject, read |-> read, code |-> code,
   memory |-> memory, body |-> body, time |-> clock,
   stored |-> set_log[key]]

\* one request to /api/chapters?subject=...
get_chapters(subject) ==
  LET cache_key == ChaptersKey(subject)
      got == MemoryCache_get(memory_cache, cache_key, clock)
      chapters_data == ChaptersOf(subject)
  IN  /\ IF subject = ""
           THEN /\ cache_reply' =
                     CacheReply("get_chapters", subject, cache_key, FALSE,
                                400, FALSE, <<>>)
                /\ UNCHANGED <<memory_cache, knowledge_cache, set_log>>
           ELSE IF Hit(got)
           THEN /\ cache_reply' =
                     CacheReply("get_chapters", subject, cache_key, TRUE,
                                200, TRUE, got.value[1])
                /\ memory_cache' = got.memory_cache
                /\ UNCHANGED <<knowledge_cache, set_log>>
           ELSE IF subject \notin subjects
           THEN /\ cache_reply' =
                     CacheReply("get_chapters", subject, cache_key, TRUE,
                                400, FALSE, <<>>)
                /\ memory_cache' = got.memory_cache
                /\ UNCHANGED <<knowledge_cache, set_log>>
           ELSE /\ cache_reply' =
                     CacheReply("get_chapters", subject, cache_key, TRUE,
                                200, FALSE, chapters_data)
                /\ memory_cache' =
                     MemoryCache_set(got.memory_cache, cache_key,
                                     chapters_data, ChaptersTtl, clock)
                /\ knowledge_cache' = knowledge_cache \cup {subject}
                /\ set_log' =
                     LogSet(set_log, cache_key, chapters_data, ChaptersTtl,
                            clock)
      /\ UNCHANGED <<clock, subjects, explanation_file>>
      /\ UNCHANGED <<machineVars, score_in, score_out, questions_in,
                     questions_out, exam_in, exam_out, records_out>>

\* the sanitized texts of what the AI returns for the concept
SafeExplanations == {<<>>, <<"e", "1">>}

\* one request to /api/explain for the concept; complete tells whether
\* chapter and concept are given, generated is <<>> when generate_explanation
\* raises and <<the sanitized text>> otherwise
get_ai_explanation(complete, force_regenerate, generated) ==
  LET cache_key == ExplanationKey
      got == MemoryCache_get(memory_cache, cache_key, clock)
      reads == complete /\ ~force_regenerate
      after_get == IF reads THEN got.memory_cache ELSE memory_cache
  IN  /\ IF ~complete
           THEN /\ cache_reply' =
                     CacheReply("get_ai_explanation", "", cache_key, FALSE,
                                400, FALSE, <<>>)
                /\ UNCHANGED <<memory_cache, explanation_file, set_log>>
           ELSE IF reads /\ Hit(got)
           THEN /\ cache_reply' =
                     CacheReply("get_ai_explanation", "", cache_key, reads,
                                200, TRUE, got.value[1])
                /\ memory_cache' = after_get
                /\ UNCHANGED <<explanation_file, set_log>>
           ELSE IF reads /\ explanation_file # <<>>
                         /\ explanation_file[1] # <<>>
           THEN /\ cache_reply' =
                     CacheReply("get_ai_explanation", "", cache_key, reads,
                                200, FALSE, explanation_file[1])
                /\ memory_cache' =
                     MemoryCache_set(after_get, cache_key,
                                     explanation_file[1], ExplanationTtl,
                                     clock)
                /\ set_log' =
                     LogSet(set_log, cache_key, explanation_file[1],
                            ExplanationTtl, clock)
                /\ UNCHANGED explanation_file
           ELSE IF generated = <<>>
           THEN /\ cache_reply' =
                     CacheReply("get_ai_explanation", "", cache_key, reads,
                                500, FALSE, <<>>)
                /\ memory_cache' = after_get
                /\ UNCHANGED <<explanation_file, set_log>>
           ELSE /\ cache_reply' =
                     CacheReply("get_ai_explanation", "", cache_key, reads,
                                200, FALSE, generated[1])
                /\ explanation_file' = generated
                /\ memory_cache' =
                     MemoryCache_set(after_get, cache_key, generated[1],
                                     ExplanationTtl, clock)
                /\ set_log' =
                     LogSet(set_log, cache_key, generated[1],
                            ExplanationTtl, clock)
      /\ UNCHANGED <<clock, subjects, knowledge_cache>>
      /\ UNCHANGED <<machineVars, score_in, score_out, questions_in,
                     questions_out, exam_in, exam_out, records_out>>

\* one request DELETE /api/subjects/<subject_name>
delete_subject(subject_name) ==
  /\ IF subject_name \notin subjects
       THEN /\ cache_reply' =
                 CacheReply("delete_subject", subject_name,
                            ChaptersKey(subject_name), FALSE, 404,
                            FALSE, <<>>)
            /\ UNCHANGED <<subjects, knowledge_cache>>
       ELSE /\ subjects' = subjects \ {subject_name}
            /\ knowledge_cache' =
                 clear_config_cache(subjects', knowledge_cache)
            /\ cache_reply' =
                 CacheReply("delete_subject", subject_name,
                            ChaptersKey(subject_name), FALSE, 200,
                            FALSE, <<>>)
  /\ UNCHANGED <<memory_cache, clock, explanation_file, set_log>>
  /\ UNCHANGED <<machineVars, score_in, score_out, questions_in,
                 questions_out, exam_in, exam_out, records_out>>

\* one request to /api/cache/clear
clear_cache ==
  /\ memory_cache' = MemoryCache_clear(memory_cache)
  /\ knowledge_cache' = clear_config_cache(subjects, knowledge_cache)
  /\ set_log' = [k \in CacheKeys |-> <<>>]
  /\ cache_reply' =
       CacheReply("clear_cache", "", ExplanationKey, FALSE, 200, FALSE,
                  <<>>)
  /\ UNCHANGED <<clock, subjects, explanation_file>>
  /\ UNCHANGED <<machineVars, score_in, score_out, questions_in,
                 questions_out, exam_in, exam_out, records_out>>

\* time passes between two requests
ClockTick ==
  /\ clock < MaxClock * SecondsPerTick
  /\ clock' = clock + SecondsPerTick
  /\ UNCHANGED <<memory_cache, subjects, knowledge_cache, explanation_file,
                 set_log, cache_reply>>
  /\ UNCHANGED <<machineVars, score_in, score_out, questions_in,
                 questions_out, exam_in, exam_out, records_out>>

NextCache ==
  \/ \E subject \in RequestSubjects : get_chapters(subject)
  \/ \E complete \in BOOLEAN, force_regenerate \in BOOLEAN,
        generated \in {<<>>} \cup {<<x>> : x \in SafeExplanations} :
       get_ai_explanation(complete, force_regenerate, generated)
  \/ \E subject_name \in RequestSubjects \ {""} :
       delete_subject(subject_name)
  \/ clear_cache
  \/ ClockTick

SpecCache == InitSeq /\ [][NextCache]_vars

\* the replies of the two handlers that store with a ttl, when the handler
\* asked memory_cache for a key whose last set stored a truthy value
AskedForStored ==
  /\ cache_reply.op \in {"get_chapters", "get_ai_explanation"}
  /\ cache_reply.read
  /\ cache_reply.stored # <<>>
  /\ cache_reply.stored[1].value # <<>>

\* C28: an entry stored with memory_cache.set(key, value, ttl=T) is
\* returned by memory_cache.get(key) while less than T seconds have passed
\* since the set, and is expired afterwards: a handler that asks for the key
\* answers from memory exactly when the age of the entry is below the ttl
\* it was stored with (600 for a chapter list, 1800 for an explanation)
C28_TtlHonoured ==
  AskedForStored =>
    (cache_reply.memory <=>
       cache_reply.time - cache_reply.stored[1].time
         < cache_reply.stored[1].ttl)

\* C30: after delete_subject(S) has succeeded, a /api/chapters request for
\* S is rejected as an unknown subject (400), never served the chapter list
\* that was cached before the deletion
C30_DeletedSubjectRejected ==
  (/\ cache_reply.op = "get_chapters"
   /\ cache_reply.subject \in SubjectNames \ subjects) =>
    cache_reply.code = 400

\* ------------------------------------------------------------------------
\* a generated exam taken in a session: start_exam, save_answer calls,
\* submit_exam
\* ------------------------------------------------------------------------

\* save_answer calls per session
MaxSaves == 2

\* the answers that save_answer accepts (anything but null): letters, an
\* empty string, other JSON values
TakenAnswers ==
  {StrVal(<<"A">>), StrVal(<<"b">>), StrVal(<<>>), IntVal(1), BoolVal(TRUE)}

\* the sequences of successful save_answer calls of a session
TakenSaves ==
  SeqsUpTo([question_index : 0..MaxIndex, answer : TakenAnswers], MaxSaves)

\* the session unit after the save_answer calls, served in order
RECURSIVE SavedSession(_, _)
SavedSession(exam_session, saves) ==
  IF saves = <<>> THEN exam_session
  ELSE SavedSession(UpdateSession(exam_session, saves[1].question_index,
                                  saves[1].answer, now),
                    Tail(saves))

\* the session unit that submit_exam writes for an exam that start_exam
\* embedded and the saves that followed
SubmittedSession(exam_data, saves) ==
  CompleteSession(
    SavedSession(StartedSession(SessionId(now, "hash", 1), DefaultStudentName,
                                exam_data, now),
                 saves),
    now)

\* generate_exam returned an exam
ExamGenerated == exam_out # <<>> /\ exam_out[1].code = 200

\* C29: for an exam produced by generate_exam and embedded unchanged in a
\* session, the score_result that submit_exam writes has full_score equal
\* to the exam's totalScore, whatever answers the save_answer calls before
\* it have stored
C29_FullScoreIsTotalScore ==
  ExamGenerated =>
    \A saves \in TakenSaves :
      LET exam_session == SubmittedSession(exam_out[1].exam[1], saves)
      IN  /\ exam_session.exam_data = exam_out[1].exam[1]
          /\ exam_session.score_result[1].full_score =
               exam_out[1].exam[1].totalScore

====
